---- MODULE Spec2Model ----
(***************************************************************************)
(* Report-generation pipeline of the bug reporter extension.               *)
(*                                                                         *)
(* Three parties share the state below:                                    *)
(*   - the popup (src/popup.js, second listing, lines 114-316): click      *)
(*     handlers, generateBugReport, its status timers, displayBugReport;   *)
(*   - the page context (src/content-simple.js, lines 1-422): the guarded  *)
(*     content script, initializeAIBugReporter, createGeminiEnhancedReport *)
(*     and createPatternBugReport;                                         *)
(*   - the remote analyzer client (src/gemini-ai.js, lines 212-439):       *)
(*     analyzeBugReport and callGeminiAPI.                                 *)
(*                                                                         *)
(* JavaScript is single threaded: every action is one task of the event    *)
(* loop, from the resumption of an await (or a timer, or a click) to the   *)
(* next suspension point.                                                  *)
(***************************************************************************)
EXTENDS Integers, Sequences, FiniteSets, TLC

\* Bounds of the exploration.
MaxInvocations == 2     \* calls of generateBugReport (clicks and refreshes)
MaxRuns == 2            \* content-script executions that pass the guard

Invocations == 1..MaxInvocations
Runs == 1..MaxRuns

(***************************************************************************)
(* Settings store (chrome.storage.sync).  A key is a sequence of           *)
(* characters; " " stands for white space, "k" for any other character.    *)
(***************************************************************************)
AiModes == {"gemini", "pattern"}
ApiKeys == {<< >>, <<" ">>, <<" ", "k">>}

RECURSIVE trimStart(_)
trimStart(s) ==
  IF s = << >> THEN << >>
  ELSE IF Head(s) = " " THEN trimStart(Tail(s)) ELSE s

RECURSIVE trimEnd(_)
trimEnd(s) ==
  IF s = << >> THEN << >>
  ELSE IF s[Len(s)] = " " THEN trimEnd(SubSeq(s, 1, Len(s) - 1)) ELSE s

\* String.prototype.trim
trim(s) == trimEnd(trimStart(s))

\* JavaScript truthiness of a string
truthy(s) == s # << >>

(***************************************************************************)
(* Remote analyzer client.                                                 *)
(***************************************************************************)
primaryModel == "models/gemini-2.5-flash-lite"
fallbackModels ==
  << "models/gemini-1.5-flash-latest", "models/gemini-1.5-flash",
     "models/gemini-1.5-pro" >>
modelsToTry == <<primaryModel>> \o fallbackModels

\* What the transport does with one request.
\*   transport     fetch rejects
\*   http          response.ok is false
\*   badbody       response.json() rejects
\*   nocandidates  no candidates[0].content in the body
\*   noparts       content has no parts[0]
\*   notext        parts[0] has no text
\*   emptytext     parts[0].text is ""
\*   ok            parts[0].text is a non-empty string
Outcomes ==
  { "transport", "http", "badbody", "nocandidates", "noparts", "notext",
    "emptytext", "ok" }

\* callGeminiAPI: either throws or returns {text, finishReason}.
callGeminiAPI(outcome) ==
  CASE outcome = "transport"    -> [threw |-> TRUE,  text |-> "none"]
    [] outcome = "http"         -> [threw |-> TRUE,  text |-> "none"]
    [] outcome = "badbody"      -> [threw |-> TRUE,  text |-> "none"]
    [] outcome = "nocandidates" -> [threw |-> TRUE,  text |-> "none"]
    [] outcome = "noparts"      -> [threw |-> TRUE,  text |-> "none"]
    [] outcome = "notext"       -> [threw |-> FALSE, text |-> "undefined"]
    [] outcome = "emptytext"    -> [threw |-> FALSE, text |-> "empty"]
    [] outcome = "ok"           -> [threw |-> FALSE, text |-> "text"]

\* Faulty variant: drops the `!response.text` test of analyzeBugReport.
attemptSucceeded_noTextCheck(resp) == ~resp.threw

\* analyzeBugReport, the try block: the attempt yields a result unless
\* callGeminiAPI threw or `!response || !response.text` holds.
attemptSucceeded(resp) == ~resp.threw /\ resp.text = "text"

\* Faulty variant: compares with the last but one element.
isLastModel_offByOne(model) == model = modelsToTry[Len(modelsToTry) - 1]

\* analyzeBugReport, the catch block: model === modelsToTry[length - 1]
isLastModel(model) == model = modelsToTry[Len(modelsToTry)]

\* Faulty variant: retries the model that has just failed.
nextModelIndex_retry(idx) == idx

\* `for (const model of modelsToTry)`: the iteration after a `continue`.
nextModelIndex(idx) == idx + 1

(***************************************************************************)
(* Content script decisions.                                               *)
(***************************************************************************)
\* Faulty variant: forgets to trim the key.
useGemini_noTrim(mode, key) == mode = "gemini" /\ truthy(key)

\* initializeAIBugReporter: the condition that selects the AI path.
useGemini(mode, key) == mode = "gemini" /\ truthy(key) /\ truthy(trim(key))

\* generateBugReport: the condition under which gemini-ai.js is injected.
injectGemini(mode, key) == mode = "gemini" /\ truthy(key)

\* Faulty variant: runs the fallback whether or not the try block threw.
catchTaken_always(threw) == TRUE

\* createGeminiEnhancedReport: the catch block runs only when the try block
\* (which ends with sendMessage) threw.
catchTaken(threw) == threw

(***************************************************************************)
(* State.                                                                  *)
(***************************************************************************)
VARIABLES
  aiMode,                   \* settings.aiMode
  geminiApiKey,             \* settings.geminiApiKey
  bugReporterInitialized,   \* window.bugReporterInitialized
  analyzerAvailable,        \* window.GeminiBugAnalyzer is defined
  bodyPresent,              \* document.body is not null
  documentTitle,            \* document.title
  textContent,              \* what the popup's report area shows
  inv,                      \* the calls of generateBugReport
  nInv,                     \* how many there have been
  run,                      \* the executions of the content script
  nRuns,                    \* how many passed the guard
  inbox,                    \* bugReportData messages on their way to the popup
  consoleHooked,            \* window.consoleHooked
  installs,                 \* the wrappers on each console method, innermost
                            \* first: the captureActive of each
  capturedLogs,             \* window.capturedLogs
  sinkCalls,                \* the calls the native console has received
  setupCalls,               \* calls of setupConsoleCapture so far
  url,                      \* window.location.href
  pageContent,              \* document.body.innerText.slice(0, 1000)
  domErrors,                \* what getDomErrors returned
  smartHeader,              \* what enhancedFallbackHeader returned
  context,                  \* what analyzeContextWithPatterns returned
  responseText,             \* the text of the model's answer
  parsed,                   \* what parseGeminiResponse returned
  supported,                \* the observer kinds the browser offers
  monitor,                  \* the PerformanceMonitor of the current run
  hooks,                    \* wrappers and listeners now on the page
  samplings,                \* calls of startMonitoring so far
  callArgs,                 \* the arguments of a call of a hooked method
  wrapperResult,            \* how the wrapper's body ended for them
  liveErrors,               \* the array getDomErrors returned to the run
  prompt,                   \* what buildAnalysisPrompt wrote of the snapshot
  report,                   \* the lines of the report that was sent
  reportPc,                 \* where the builder of the report is
  reactPage,                \* what the page shows of React, and the globals
  reactAnalysis,            \* what analyzeReactApp returned
  advancedReactAnalysis,    \* analyzeAdvancedReact has returned an analysis
  delivered,                \* the headings of the report that was sent
  reactPc,                  \* where the run that analyses React is
  sentReports,              \* the reports the content script has sent
  inFlight,                 \* deliveries of bugReportData under way
  forwards,                 \* calls of sendMessage by the background listener
  shown,                    \* the report displayBugReport has shown last
  popupOpen,                \* the popup and its listener exist
  vitals,                   \* metrics.vitals of the PerformanceMonitor
  clsValue,                 \* the sum kept by the layout-shift observer
  scanPage,                 \* the page getDomErrors scans
  domIssues                 \* the array getDomErrors has returned

consoleVars ==
  << consoleHooked, installs, capturedLogs, sinkCalls, setupCalls >>

heuristicVars == << url, pageContent, domErrors, smartHeader, context >>

\* The variables of the units that are examined on their own.
parserVars == << responseText, parsed >>

samplerVars == << supported, monitor, hooks, samplings >>

argsVars == << callArgs, wrapperResult >>

reportVars == << liveErrors, prompt, report, reportPc >>

reactVars ==
  << reactPage, reactAnalysis, advancedReactAnalysis, delivered, reactPc >>

\* The units that report what the page is made of.
relayVars == << sentReports, inFlight, forwards, shown, popupOpen >>

vitalVars == << vitals, clsValue >>

scanVars == << scanPage, domIssues >>

furtherVars == << reactVars, relayVars, vitalVars, scanVars >>

unitVars ==
  << consoleVars, heuristicVars, parserVars, samplerVars, argsVars,
     reportVars, furtherVars >>

vars ==
  << aiMode, geminiApiKey, bugReporterInitialized, analyzerAvailable,
     bodyPresent, documentTitle, textContent, inv, nInv, run, nRuns,
     inbox, unitVars >>

\* The popup and the runs of the content script, bugReporterInitialized
\* apart.
pipelineRest ==
  << aiMode, geminiApiKey, analyzerAvailable, bodyPresent, documentTitle,
     textContent, inv, nInv, run, nRuns, inbox >>

settingsVars == << aiMode, geminiApiKey >>

\* The phrases the timers of generateBugReport look for.
Needles == {"Loading AI model", "Processing", "download taking longer"}

\* document.title: a title without any of the phrases, or one that holds
\* one of them ("Processing your order").
Titles == {"Example Domain"} \cup Needles

\* Faulty variant: one of the tags is a phrase the timers look for.
AnalysisTypes_withPhrase ==
  {"general", "performance", "react", "security", "Processing"}

\* The tags generateBugReport knows: the keys of analysisMessages.
AnalysisTypes ==
  {"general", "performance", "react", "security", "accessibility"}

\* Status texts of generateBugReport and its timers; the first one prints
\* the tag.
Loading(analysisType) ==
  [kind |-> "Loading AI model", run |-> 0, title |-> analysisType]
Processing == [kind |-> "Processing", run |-> 0, title |-> ""]
TakingLonger == [kind |-> "download taking longer", run |-> 0, title |-> ""]
TooLong == [kind |-> "taking too long", run |-> 0, title |-> ""]
ErrorText == [kind |-> "Error generating bug report", run |-> 0, title |-> ""]
Blank == [kind |-> "", run |-> 0, title |-> ""]

\* The kinds of report: createGeminiEnhancedReport, createPatternBugReport
\* and the basic report of the last timer.
ReportKinds == {"ai", "pattern", "basic"}

\* A delivered report, as displayBugReport shows it: every kind of report
\* prints the page title.
ReportText(kind, r) == [kind |-> kind, run |-> r, title |-> documentTitle]

\* bugReportText.textContent.includes(needle): a status text holds the
\* phrase it is named after (the first one the tag as well), a report
\* holds the page title.
includes(text, needle) == text.kind = needle \/ text.title = needle

NoInvocation ==
  [ pc |-> "none",      \* none, clear, helpers, content, armed, failed
    armedAt |-> 0,      \* rank among the invocations that set their timers
    t3 |-> "unset",     \* the timers: unset, pending, fired
    t30 |-> "unset",
    t120 |-> "unset" ]

NoRun ==
  [ pc |-> "none",          \* none, settings, collect, fetch, hung, done,
                            \* crashed
    inv |-> 0,              \* the invocation whose injection started the run
    idx |-> 0,              \* position of the loop of analyzeBugReport
    issued |-> << >>,       \* the models requested, in order
    failed |-> << >>,       \* the models whose attempt failed, in order
    outstanding |-> 0,      \* requests sent and not yet answered
    answered |-> 0,         \* responses the transport has given
    aiProduced |-> FALSE,   \* analyzeBugReport returned a result
    resultModel |-> "none", \* the model it came from
    resultText |-> "none",  \* the response text it was parsed from
    heurProduced |-> FALSE, \* analyzeContextWithPatterns returned a result
    exhausted |-> FALSE,    \* analyzeBugReport threw
    analyzerMissing |-> FALSE, \* createGeminiEnhancedReport found no analyzer
    patternCalls |-> 0,     \* calls of createPatternBugReport
    sentAI |-> 0,           \* messages sent by createGeminiEnhancedReport
    sentPattern |-> 0,      \* messages sent by createPatternBugReport
    sentBasic |-> 0 ]       \* basic reports injected for this run

\* The console as the page gives it: nothing is wrapped.
ConsoleIdle ==
  /\ consoleHooked = FALSE
  /\ installs = << >>
  /\ capturedLogs = << >>
  /\ sinkCalls = << >>
  /\ setupCalls = 0

\* No page has been classified.
HeuristicIdle ==
  /\ url = << >>
  /\ pageContent = << >>
  /\ domErrors = {}
  /\ smartHeader = "none"
  /\ context = "none"

\* Nothing returned yet.
NoAnalysis ==
  [ header |-> "", severity |-> "", severityConfidence |-> "",
    category |-> "", categoryConfidence |-> "", summary |-> "",
    priority |-> "", analysisType |-> "none" ]

\* No answer has been parsed.
ParserIdle ==
  /\ responseText = << >>
  /\ parsed = NoAnalysis

\* new PerformanceMonitor(): the constructor.
NewMonitor == [pc |-> "idle", isMonitoring |-> FALSE, observers |-> {}]

\* The page before any sampling: fetch, XMLHttpRequest.prototype.open and
\* the document are as the page made them.
NoHooks == [fetch |-> 0, xhrOpen |-> 0, listeners |-> 0]

\* No sampling has taken place.
SamplerIdle ==
  /\ supported = {}
  /\ monitor = NewMonitor
  /\ hooks = NoHooks
  /\ samplings = 0

\* The wrapper's body has not run.
NotCalled == [pc |-> "idle", entry |-> << >>]

\* No call of a hooked method is examined.
ArgsIdle ==
  /\ callArgs = << >>
  /\ wrapperResult = NotCalled

\* No prompt has been built.
NoPrompt == [built |-> FALSE, consoleErrors |-> << >>, domErrors |-> << >>]

\* No report is being built.
ReportIdle ==
  /\ liveErrors = << >>
  /\ prompt = NoPrompt
  /\ report = << >>
  /\ reportPc = "idle"

\* reactAnalysis is null.
NoReactAnalysis ==
  [ ran |-> FALSE, detected |-> FALSE, version |-> "null",
    devTools |-> FALSE, mode |-> "null" ]

\* A page without a trace of React and without the analyzers.
NoReactPage ==
  [ React |-> "none", hook |-> "none", roots |-> 0, fibers |-> 0,
    minified |-> FALSE, globals |-> {} ]

\* No page is examined for React.
ReactIdle ==
  /\ reactPage = NoReactPage
  /\ reactAnalysis = NoReactAnalysis
  /\ advancedReactAnalysis = FALSE
  /\ delivered = << >>
  /\ reactPc = "idle"

\* No message has been sent.
RelayIdle ==
  /\ sentReports = << >>
  /\ inFlight = {}
  /\ forwards = 0
  /\ shown = "none"
  /\ popupOpen = FALSE

\* A vital no observer has reported.
NoVital == [value |-> 0, rating |-> "unset"]

\* metrics.vitals is empty.
VitalsIdle ==
  /\ vitals = [lcp |-> NoVital, fid |-> NoVital, cls |-> NoVital]
  /\ clsValue = 0

\* A page without error elements and without numbers in its text.
NoScanPage == [elements |-> << >>, codes |-> 0, listeners |-> 0]

\* No page is scanned.
ScanIdle ==
  /\ scanPage = NoScanPage
  /\ domIssues = << >>

FurtherIdle == ReactIdle /\ RelayIdle /\ VitalsIdle /\ ScanIdle

UnitsIdle ==
  /\ FurtherIdle
  /\ ConsoleIdle
  /\ HeuristicIdle
  /\ ParserIdle
  /\ SamplerIdle
  /\ ArgsIdle
  /\ ReportIdle

Init ==
  /\ UnitsIdle
  /\ aiMode \in AiModes
  /\ geminiApiKey \in ApiKeys
  /\ bugReporterInitialized = FALSE
  /\ analyzerAvailable = FALSE
  /\ bodyPresent \in BOOLEAN
  /\ documentTitle \in Titles
  /\ textContent = Blank
  /\ inv = [i \in Invocations |-> NoInvocation]
  /\ nInv = 0
  /\ run = [r \in Runs |-> NoRun]
  /\ nRuns = 0
  /\ inbox = << >>

\* The popup closed and no run started: the state in which the units are
\* examined on their own.
PipelineIdle ==
  /\ aiMode = "pattern"
  /\ geminiApiKey = << >>
  /\ bugReporterInitialized = FALSE
  /\ analyzerAvailable = FALSE
  /\ bodyPresent = TRUE
  /\ textContent = Blank
  /\ inv = [i \in Invocations |-> NoInvocation]
  /\ nInv = 0
  /\ run = [r \in Runs |-> NoRun]
  /\ nRuns = 0
  /\ inbox = << >>

(***************************************************************************)
(* Content script (page context).                                          *)
(***************************************************************************)
Message(kind, r) == [type |-> "bugReportData", kind |-> kind, run |-> r]

\* createPatternBugReport, one call on behalf of run r whose record is rec.
\* document.body.innerText throws when the document has no body; the
\* message is sent by the last statement.
createPatternBugReport(rec, r) ==
  IF bodyPresent
  THEN [ rec |-> [rec EXCEPT !.patternCalls = @ + 1, !.heurProduced = TRUE,
                             !.sentPattern = @ + 1],
         threw |-> FALSE,
         msgs |-> << Message("pattern", r) >> ]
  ELSE [ rec |-> [rec EXCEPT !.patternCalls = @ + 1],
         threw |-> TRUE,
         msgs |-> << >> ]

\* initializeAIBugReporter, the catch block: one more call of
\* createPatternBugReport; when that throws too the promise is rejected.
initializeCatch(rec, r) ==
  LET c == createPatternBugReport(rec, r) IN
  IF c.threw
  THEN [rec |-> [c.rec EXCEPT !.pc = "crashed"], msgs |-> c.msgs]
  ELSE [rec |-> [c.rec EXCEPT !.pc = "done"], msgs |-> c.msgs]

\* A call of createPatternBugReport inside the try block of
\* initializeAIBugReporter: directly (else branch) or from the catch block
\* of createGeminiEnhancedReport.
heuristicPath(rec, r) ==
  LET c == createPatternBugReport(rec, r) IN
  IF c.threw
  THEN initializeCatch(c.rec, r)
  ELSE [rec |-> [c.rec EXCEPT !.pc = "done"], msgs |-> c.msgs]

\* createGeminiEnhancedReport, end of the try block.
afterTry(rec, r, threw, msgs) ==
  IF catchTaken(threw)
  THEN LET h == heuristicPath(rec, r) IN
       [rec |-> h.rec, msgs |-> msgs \o h.msgs]
  ELSE [rec |-> [rec EXCEPT !.pc = "done"], msgs |-> msgs]

\* The storage read of initializeAIBugReporter resolves and the path is
\* chosen.  On the AI path createGeminiEnhancedReport runs up to its first
\* await (the performance sampling window, or the React analysis).  When
\* neither analyzer was injected there is no await before the first request;
\* the two steps are then taken one after the other.
RunReadsSettings(r) ==
  /\ run[r].pc = "settings"
  /\ LET rec == run[r] IN
     IF useGemini(aiMode, geminiApiKey)
     THEN IF ~analyzerAvailable
          THEN LET h == afterTry([rec EXCEPT !.analyzerMissing = TRUE], r,
                                 TRUE, << >>)
               IN /\ run' = [run EXCEPT ![r] = h.rec]
                  /\ inbox' = inbox \o h.msgs
          ELSE /\ run' = [run EXCEPT ![r].pc = "collect"]
               /\ inbox' = inbox
     ELSE LET h == heuristicPath(rec, r) IN
          /\ run' = [run EXCEPT ![r] = h.rec]
          /\ inbox' = inbox \o h.msgs
  /\ UNCHANGED << unitVars, settingsVars, documentTitle,
                  bugReporterInitialized, analyzerAvailable,
                  bodyPresent, textContent, inv, nInv, nRuns >>

\* The sampling window is over: pageData is built (document.body.innerText
\* throws without a body) and analyzeBugReport sends its first request.
RunCollects(r) ==
  /\ run[r].pc = "collect"
  /\ LET rec == run[r] IN
     IF ~bodyPresent
     THEN LET h == afterTry(rec, r, TRUE, << >>) IN
          /\ run' = [run EXCEPT ![r] = h.rec]
          /\ inbox' = inbox \o h.msgs
     ELSE /\ run' = [run EXCEPT ![r] =
                       [rec EXCEPT !.pc = "fetch", !.idx = 1,
                                   !.issued = << modelsToTry[1] >>,
                                   !.outstanding = @ + 1]]
          /\ inbox' = inbox
  /\ UNCHANGED << unitVars, settingsVars, documentTitle,
                  bugReporterInitialized, analyzerAvailable,
                  bodyPresent, textContent, inv, nInv, nRuns >>

\* The request of run r is answered: callGeminiAPI resumes, then the loop
\* of analyzeBugReport, then createGeminiEnhancedReport up to sendMessage
\* or the next request.
FetchResponds(r, outcome) ==
  /\ run[r].pc = "fetch"
  /\ run[r].outstanding > 0
  /\ LET rec0 == [run[r] EXCEPT !.outstanding = @ - 1, !.answered = @ + 1]
         model == modelsToTry[rec0.idx]
         resp == callGeminiAPI(outcome)
     IN
     IF attemptSucceeded(resp)
     THEN \* parseGeminiResponse returns, the report is built and sent
          LET rec1 == [rec0 EXCEPT !.aiProduced = TRUE,
                                   !.resultModel = model,
                                   !.resultText = resp.text,
                                   !.sentAI = @ + 1]
              h == afterTry(rec1, r, FALSE, << Message("ai", r) >>)
          IN /\ run' = [run EXCEPT ![r] = h.rec]
             /\ inbox' = inbox \o h.msgs
     ELSE LET rec1 == [rec0 EXCEPT !.failed = Append(@, model)] IN
          IF isLastModel(model)
          THEN \* throw error: every model has failed
               LET h == afterTry([rec1 EXCEPT !.exhausted = TRUE], r, TRUE,
                                 << >>)
               IN /\ run' = [run EXCEPT ![r] = h.rec]
                  /\ inbox' = inbox \o h.msgs
          ELSE IF nextModelIndex(rec1.idx) <= Len(modelsToTry)
          THEN \* continue: the next model is requested
               LET k == nextModelIndex(rec1.idx) IN
               /\ run' = [run EXCEPT ![r] =
                            [rec1 EXCEPT !.idx = k,
                                         !.issued = Append(@, modelsToTry[k]),
                                         !.outstanding = @ + 1]]
               /\ inbox' = inbox
          ELSE \* the loop ends without a return: analysis is undefined
               \* and analysis.header throws
               LET h == afterTry(rec1, r, TRUE, << >>) IN
               /\ run' = [run EXCEPT ![r] = h.rec]
               /\ inbox' = inbox \o h.msgs
  /\ UNCHANGED << unitVars, settingsVars, documentTitle,
                  bugReporterInitialized, analyzerAvailable,
                  bodyPresent, textContent, inv, nInv, nRuns >>

\* fetch is called without a signal or a timer: a request the server never
\* answers stays pending for ever.
TransportHangs(r) ==
  /\ run[r].pc = "fetch"
  /\ run[r].outstanding > 0
  /\ run' = [run EXCEPT ![r].pc = "hung"]
  /\ UNCHANGED << unitVars, settingsVars, documentTitle,
                  bugReporterInitialized, analyzerAvailable,
                  bodyPresent, textContent, inv, nInv, nRuns, inbox >>

\* The page replaces its document: document.body becomes null.
PageRemovesBody ==
  /\ bodyPresent
  /\ \E r \in Runs : run[r].pc \in {"settings", "collect", "fetch"}
  /\ bodyPresent' = FALSE
  /\ UNCHANGED << unitVars, settingsVars, documentTitle,
                  bugReporterInitialized, analyzerAvailable,
                  textContent, inv, nInv, run, nRuns, inbox >>

(***************************************************************************)
(* Popup.                                                                  *)
(***************************************************************************)
\* generateBugReport up to its first injection: the status text is set and
\* the settings are read (they do not change while the popup is open).
startGenerate(i, analysisType) ==
  /\ textContent' = Loading(analysisType)
  /\ inv' = [inv EXCEPT ![i].pc = "helpers"]

\* Click on the start button.  The report view hides the button and Close
\* shows it again; the view is not part of the state, a click is possible
\* whenever the user has closed the view first.  The handler passes no
\* tag; the call is examined for every tag generateBugReport knows.
ClickReportBug(analysisType) ==
  /\ nInv < MaxInvocations
  /\ nInv' = nInv + 1
  /\ startGenerate(nInv + 1, analysisType)
  /\ UNCHANGED << unitVars, settingsVars, documentTitle,
                  bugReporterInitialized, analyzerAvailable,
                  bodyPresent, run, nRuns, inbox >>

\* Click on Refresh: a function that clears the page's flags is injected.
ClickRefresh ==
  /\ nInv > 0
  /\ nInv < MaxInvocations
  /\ nInv' = nInv + 1
  /\ inv' = [inv EXCEPT ![nInv + 1].pc = "clear"]
  /\ UNCHANGED << unitVars, settingsVars, documentTitle,
                  bugReporterInitialized, analyzerAvailable,
                  bodyPresent, textContent, run, nRuns, inbox >>

\* The clearing function has run (then) or could not be injected (catch);
\* generateBugReport is called either way.
RefreshClears(i, injected) ==
  /\ inv[i].pc = "clear"
  /\ bugReporterInitialized' =
       IF injected THEN FALSE ELSE bugReporterInitialized
  /\ startGenerate(i, "general")
  /\ UNCHANGED << unitVars, settingsVars, documentTitle,
                  analyzerAvailable, bodyPresent, nInv, run,
                  nRuns, inbox >>

\* The injections that precede content-simple.js: gemini-ai.js when
\* injectGemini holds, then the analyzers.  The first failure abandons the
\* rest (catch injectionError).
HelperOutcomes == {"ok", "geminiFails", "laterFails"}

InjectHelpers(i, outcome) ==
  /\ inv[i].pc = "helpers"
  /\ outcome = "geminiFails" => injectGemini(aiMode, geminiApiKey)
  /\ analyzerAvailable' =
       IF injectGemini(aiMode, geminiApiKey) /\ outcome # "geminiFails"
       THEN TRUE ELSE analyzerAvailable
  /\ inv' = [inv EXCEPT ![i].pc = "content"]
  /\ UNCHANGED << unitVars, settingsVars, documentTitle,
                  bugReporterInitialized, bodyPresent,
                  textContent, nInv, run, nRuns, inbox >>

\* content-simple.js is injected: the guarded body of the script runs up to
\* the await of initializeAIBugReporter, then generateBugReport sets its
\* timers.  When the injection is refused generateBugReport shows the error.
InjectContent(i, injected) ==
  /\ inv[i].pc = "content"
  /\ IF ~injected
     THEN /\ textContent' = ErrorText
          /\ inv' = [inv EXCEPT ![i].pc = "failed"]
          /\ UNCHANGED << bugReporterInitialized, run, nRuns >>
     ELSE /\ textContent' = textContent
          /\ inv' = [inv EXCEPT ![i] =
                       [ pc |-> "armed",
                         armedAt |->
                           Cardinality({j \in Invocations :
                                          inv[j].pc = "armed"}) + 1,
                         t3 |-> "pending", t30 |-> "pending",
                         t120 |-> "unset" ]]
          /\ IF bugReporterInitialized
             THEN UNCHANGED << bugReporterInitialized, run, nRuns >>
             ELSE /\ nRuns < MaxRuns
                  /\ bugReporterInitialized' = TRUE
                  /\ nRuns' = nRuns + 1
                  /\ run' = [run EXCEPT ![nRuns + 1] =
                               [NoRun EXCEPT !.pc = "settings", !.inv = i]]
  /\ UNCHANGED << unitVars, settingsVars, documentTitle,
                  analyzerAvailable, bodyPresent, nInv, inbox >>

\* Time.  The storage read, the two-second sampling window and the delivery
\* of a message are short next to the thirty seconds of the second timer,
\* and only the network wait is unbounded: when a timer of invocation i
\* fires after thirty seconds or more, the runs started by i or before it
\* are waiting for the network or have ended, and no message is on its way.
pastCollection(i) ==
  /\ \A r \in Runs :
       run[r].inv <= i => run[r].pc \notin {"settings", "collect"}
  /\ inbox = << >>

\* Timers of equal delay fire in the order in which they were set.
earlier(i) ==
  {j \in Invocations : inv[j].pc = "armed" /\ inv[j].armedAt < inv[i].armedAt}

\* setTimeout 3000
Timer3(i) ==
  /\ inv[i].t3 = "pending"
  /\ \A j \in earlier(i) : inv[j].t3 = "fired"
  /\ inv' = [inv EXCEPT ![i].t3 = "fired"]
  /\ textContent' =
       IF includes(textContent, "Loading AI model") THEN Processing
       ELSE textContent
  /\ UNCHANGED << unitVars, settingsVars, documentTitle,
                  bugReporterInitialized, analyzerAvailable,
                  bodyPresent, nInv, run, nRuns, inbox >>

\* setTimeout 30000, which sets the 90000 timer
Timer30(i) ==
  /\ inv[i].t30 = "pending"
  /\ inv[i].t3 = "fired"
  /\ \A j \in earlier(i) : inv[j].t30 = "fired"
  /\ pastCollection(i)
  /\ IF includes(textContent, "Processing")
     THEN /\ textContent' = TakingLonger
          /\ inv' = [inv EXCEPT ![i].t30 = "fired", ![i].t120 = "pending"]
     ELSE /\ textContent' = textContent
          /\ inv' = [inv EXCEPT ![i].t30 = "fired"]
  /\ UNCHANGED << unitVars, settingsVars, documentTitle,
                  bugReporterInitialized, analyzerAvailable,
                  bodyPresent, nInv, run, nRuns, inbox >>

\* setTimeout 90000 inside the previous one: the basic report is injected
\* into the page, which sends it like any other report.
Timer120(i) ==
  /\ inv[i].t120 = "pending"
  /\ \A j \in earlier(i) : inv[j].t120 # "pending"
  /\ pastCollection(i)
  /\ inv' = [inv EXCEPT ![i].t120 = "fired"]
  /\ IF includes(textContent, "download taking longer")
     THEN /\ textContent' = TooLong
          /\ inbox' = Append(inbox, Message("basic", nRuns))
          /\ run' = [run EXCEPT ![nRuns].sentBasic = @ + 1]
     ELSE UNCHANGED << textContent, inbox, run >>
  /\ UNCHANGED << unitVars, settingsVars, documentTitle,
                  bugReporterInitialized, analyzerAvailable,
                  bodyPresent, nInv, nRuns >>

\* chrome.runtime.onMessage listener of the popup: displayBugReport.
PopupReceives ==
  /\ inbox # << >>
  /\ textContent' = ReportText(Head(inbox).kind, Head(inbox).run)
  /\ inbox' = Tail(inbox)
  /\ UNCHANGED << unitVars, settingsVars, documentTitle,
                  bugReporterInitialized, analyzerAvailable,
                  bodyPresent, inv, nInv, run, nRuns >>

Next ==
  \/ \E tag \in AnalysisTypes : ClickReportBug(tag)
  \/ ClickRefresh
  \/ \E i \in Invocations, b \in BOOLEAN : RefreshClears(i, b)
  \/ \E i \in Invocations, o \in HelperOutcomes : InjectHelpers(i, o)
  \/ \E i \in Invocations, b \in BOOLEAN : InjectContent(i, b)
  \/ \E i \in Invocations : Timer3(i)
  \/ \E i \in Invocations : Timer30(i)
  \/ \E i \in Invocations : Timer120(i)
  \/ PopupReceives
  \/ \E r \in Runs : RunReadsSettings(r)
  \/ \E r \in Runs : RunCollects(r)
  \/ \E r \in Runs, o \in Outcomes : FetchResponds(r, o)
  \/ \E r \in Runs : TransportHangs(r)
  \/ PageRemovesBody

Spec == Init /\ [][Next]_vars

\* The event loop runs every task that is ready, and a request that is not
\* hung is answered.
Fairness ==
  /\ \A i \in Invocations :
       /\ WF_vars(\E b \in BOOLEAN : RefreshClears(i, b))
       /\ WF_vars(\E o \in HelperOutcomes : InjectHelpers(i, o))
       /\ WF_vars(\E b \in BOOLEAN : InjectContent(i, b))
       /\ WF_vars(Timer3(i))
       /\ WF_vars(Timer30(i))
       /\ WF_vars(Timer120(i))
  /\ WF_vars(PopupReceives)
  /\ \A r \in Runs :
       /\ WF_vars(RunReadsSettings(r))
       /\ WF_vars(RunCollects(r))
       /\ WF_vars(\E o \in Outcomes : FetchResponds(r, o))

FairSpec == Spec /\ Fairness

TypeOK ==
  /\ aiMode \in AiModes
  /\ geminiApiKey \in ApiKeys
  /\ nInv \in 0..MaxInvocations
  /\ nRuns \in 0..MaxRuns
  /\ \A r \in Runs : run[r].outstanding \in 0..1

(***************************************************************************)
(* Properties.                                                             *)
(***************************************************************************)
sentBy(r) == run[r].sentAI + run[r].sentPattern + run[r].sentBasic

InFlight == {"settings", "collect", "fetch", "hung"}
Terminal == {"done", "crashed"}

Prefix(k) == SubSeq(modelsToTry, 1, k)

\* C1: every run that has delivered its report accounts for exactly one
\* bugReportData message, the AI report, the pattern report and the basic
\* report of the popup's last timer all counted.
C1_ExactlyOneMessagePerRun ==
  \A r \in Runs : run[r].pc = "done" => sentBy(r) = 1

\* C2: an injection of the content script while a run is in flight starts
\* no second run, whatever the popup did in between (Refresh included): at
\* most one run is in flight at any time.
C2_SecondTriggerIsNoOp ==
  Cardinality({r \in Runs : run[r].pc \in InFlight}) <= 1

\* C3: a run sends a request to the model API only when aiMode is "gemini"
\* and the trimmed key is not empty; any other run sends none and, when it
\* delivers, delivers the heuristic report.
C3_NetworkOnlyWithKey ==
  \A r \in Runs :
    /\ (run[r].issued # << >> \/ run[r].outstanding > 0 \/ run[r].answered > 0)
         => (aiMode = "gemini" /\ trim(geminiApiKey) # << >>)
    /\ (run[r].pc \in Terminal
          /\ ~(aiMode = "gemini" /\ trim(geminiApiKey) # << >>))
         => /\ run[r].issued = << >>
            /\ ~run[r].aiProduced
            /\ run[r].sentAI = 0
            /\ run[r].pc = "done" => run[r].sentPattern = 1

\* A run with aiMode "gemini" and a key of white space only, for which the
\* popup did inject the analyzer, has delivered the pattern report.
C3_Witness ==
  \E r \in Runs :
    /\ aiMode = "gemini" /\ geminiApiKey = <<" ">> /\ analyzerAvailable
    /\ run[r].pc = "done" /\ run[r].sentPattern = 1 /\ run[r].issued = << >>

\* C4: analyzeBugReport returns the result of the first model of
\* modelsToTry whose attempt succeeds, every earlier model having failed,
\* and throws exactly when every model of the list has failed.
C4_FirstSuccessfulModel ==
  \A r \in Runs :
    /\ run[r].aiProduced =>
         \E k \in 1..Len(modelsToTry) :
           /\ run[r].resultModel = modelsToTry[k]
           /\ run[r].issued = Prefix(k)
           /\ run[r].failed = Prefix(k - 1)
    /\ run[r].exhausted => (run[r].failed = modelsToTry /\ ~run[r].aiProduced)
    /\ run[r].failed = modelsToTry => run[r].exhausted

\* Every model but the last has failed and the result is the last model's.
C4_Witness ==
  \E r \in Runs :
    /\ run[r].aiProduced
    /\ run[r].resultModel = modelsToTry[Len(modelsToTry)]
    /\ Len(run[r].failed) = Len(modelsToTry) - 1

\* C5: when every model has failed, or the analyzer is missing from the
\* page, the run delivers the pattern report and does not end in an error.
C5_ExhaustionFallsBack ==
  \A r \in Runs :
    (run[r].exhausted \/ run[r].analyzerMissing) =>
      (run[r].pc = "done" /\ run[r].heurProduced /\ run[r].sentPattern = 1)

\* C6: a run that has ended has sent a report, and no run ends with the
\* promise of initializeAIBugReporter rejected.
C6_AlwaysAReport ==
  \A r \in Runs :
    /\ run[r].pc # "crashed"
    /\ run[r].pc \in Terminal => run[r].sentAI + run[r].sentPattern >= 1

\* C7: a run produces an AI result or a heuristic result, never both; it
\* sends at most one report, built from the result it produced; a run that
\* has delivered has produced exactly one result.
C7_OneAnalysisResult ==
  \A r \in Runs :
    /\ ~(run[r].aiProduced /\ run[r].heurProduced)
    /\ run[r].sentAI + run[r].sentPattern <= 1
    /\ run[r].sentAI = 1 => (run[r].aiProduced /\ ~run[r].heurProduced)
    /\ run[r].sentPattern = 1 => (run[r].heurProduced /\ ~run[r].aiProduced)
    /\ run[r].pc = "done" => (run[r].aiProduced # run[r].heurProduced)

\* A run on the AI path has delivered the AI report after a failed attempt
\* and has produced no heuristic result.
C7_Witness ==
  \E r \in Runs :
    /\ run[r].pc = "done" /\ run[r].aiProduced /\ run[r].sentAI = 1
    /\ run[r].failed # << >>

\* C8: within one call of analyzeBugReport at most one request is
\* outstanding, the models are requested in list order and each at most
\* once, a model is requested only after every earlier one has failed, and
\* nothing is requested once a result has been returned.
C8_SequentialAttempts ==
  \A r \in Runs :
    /\ run[r].outstanding <= 1
    /\ Len(run[r].issued) <= Len(modelsToTry)
    /\ run[r].issued = Prefix(Len(run[r].issued))
    /\ \A a, b \in 1..Len(run[r].issued) :
         run[r].issued[a] = run[r].issued[b] => a = b
    /\ Len(run[r].issued) = run[r].answered + run[r].outstanding
    /\ run[r].issued # << >> =>
         SubSeq(run[r].issued, 1, Len(run[r].issued) - 1)
           = SubSeq(run[r].failed, 1, Len(run[r].issued) - 1)
    /\ run[r].aiProduced =>
         /\ run[r].outstanding = 0
         /\ run[r].issued[Len(run[r].issued)] = run[r].resultModel
    /\ run[r].pc \in Terminal => run[r].outstanding = 0

\* The third model is being requested after two failures.
C8_Witness ==
  \E r \in Runs :
    /\ run[r].pc = "fetch" /\ run[r].outstanding = 1
    /\ Len(run[r].issued) = 3 /\ Len(run[r].failed) = 2

\* C9: a model attempt that is waiting for the transport always ends, so
\* the run that made it ends too.
C9_EveryAttemptEnds ==
  \A r \in Runs :
    (run[r].pc \in {"fetch", "hung"}) ~> (run[r].pc \in Terminal)

FailureOutcomes == Outcomes \ {"ok"}

\* C10: whatever the kind of failure of an attempt (fetch rejects, the
\* status is not 2xx, the body has no candidates[0].content.parts[0].text,
\* the text is empty), the attempt is counted as failed; when the model is
\* not the last of the list the next model is requested and nothing is
\* delivered or thrown, and when it is the last analyzeBugReport throws.
C10_FailureTriesNextModel ==
  [][ \A r \in Runs, o \in FailureOutcomes :
        FetchResponds(r, o) =>
          LET model == modelsToTry[run[r].idx] IN
          /\ run'[r].failed = Append(run[r].failed, model)
          /\ ~run'[r].aiProduced
          /\ IF isLastModel(model)
             THEN run'[r].exhausted
             ELSE /\ run'[r].pc = "fetch"
                  /\ ~run'[r].exhausted
                  /\ run'[r].issued =
                       Append(run[r].issued, modelsToTry[run[r].idx + 1])
                  /\ run'[r].outstanding = 1
                  /\ inbox' = inbox ]_vars

\* The first model has failed and the second is being requested.
C10_Witness ==
  \E r \in Runs :
    /\ run[r].pc = "fetch" /\ run[r].outstanding = 1
    /\ run[r].failed = << modelsToTry[1] >>
    /\ run[r].issued = << modelsToTry[1], modelsToTry[2] >>

\* C11: an injection of the content script that arrives when every run so
\* far has delivered its report, and the popup has shown it, starts a fresh
\* run.
C11_TriggerAfterDeliveryStartsRun ==
  [][ \A i \in Invocations :
        ( /\ InjectContent(i, TRUE)
          /\ nRuns > 0
          /\ \A r \in Runs : run[r].pc \in {"none", "done"}
          /\ inbox = << >> )
        => /\ nRuns' = nRuns + 1
           /\ run'[nRuns'].pc = "settings" ]_vars

\* C12: once the report of the current run is displayed, no timer callback
\* of generateBugReport changes what is displayed or has another report
\* sent, whatever the report's text.
C12_TimersAreCosmetic ==
  [][ \A i \in Invocations :
        ( /\ Timer3(i) \/ Timer30(i) \/ Timer120(i)
          /\ textContent.kind \in ReportKinds
          /\ textContent.run = nRuns )
        => /\ textContent' = textContent
           /\ inbox' = inbox ]_vars

\* C13: once a newer call of generateBugReport has begun (a second click,
\* or Refresh after its clearing step), no timer callback of an earlier
\* call changes the report area.
C13_StaleTimersAreSilent ==
  [][ \A i \in Invocations :
        ( /\ Timer3(i) \/ Timer30(i) \/ Timer120(i)
          /\ i < nInv
          /\ inv[nInv].pc # "clear" )
        => textContent' = textContent ]_vars

\* C33: each timer callback of generateBugReport acts only on the status
\* text of the stage before it: the +3 s callback writes only over the
\* 'Loading AI model' status, the +30 s callback only over the
\* 'Processing' status, and the +120 s callback has the basic report sent
\* only while the 'taking longer' status is displayed, so never once a
\* report has been displayed in its place.
C33_StagesFollowStatus ==
  [][ \A i \in Invocations :
        /\ (Timer3(i) /\ textContent' # textContent)
             => textContent.kind = "Loading AI model"
        /\ (Timer30(i) /\ textContent' # textContent)
             => textContent = Processing
        /\ (Timer120(i) /\ inbox' # inbox)
             => /\ textContent = TakingLonger
                /\ inbox' = Append(inbox, Message("basic", nRuns)) ]_vars

(***************************************************************************)
(* Console collector (content-simple.js, setupConsoleCapture).             *)
(***************************************************************************)
MaxSetupCalls == 2
MaxConsoleCalls == 3

methods == {"log", "warn", "error", "info", "debug"}

\* What a call prints, args.join(' '): a message of the page, one that
\* holds a phrase that ends the capture and one of the extension itself.
LogTexts == {"page message", "Starting bug report", "bug reporter ready"}

\* logText.includes('starting bug report') || includes('initializing ai'),
\* on the lower-cased text
endsCapture(text) == text = "Starting bug report"

\* isExtensionLog
isExtensionLog(text) == text = "bug reporter ready"

\* Faulty variant: wraps the methods again on every call.
setupConsoleCapture_noHookCheck(hooked, wrappers) == Append(wrappers, TRUE)

\* setupConsoleCapture: the wrappers after the call.  A new wrapper closes
\* over the method it finds and starts with captureActive = true.
setupConsoleCapture(hooked, wrappers) ==
  IF hooked THEN wrappers ELSE Append(wrappers, TRUE)

\* Faulty variant: calls the original method only once capture has closed.
callsOriginal_onceClosed(active) == ~active

\* The wrapper's first statement, originalConsole[method](...args), is
\* unconditional.
callsOriginal(active) == TRUE

\* logEntry; the time stamp is the number of setupConsoleCapture calls made
\* before the entry.
logEntry(method, text) ==
  [method |-> method, args |-> text, timestamp |-> setupCalls]

\* Faulty variant: a marker seen while capture is closed opens it again.
capture_reopens(k, st, method, text) ==
  IF endsCapture(text) THEN [st EXCEPT !.installs[k] = ~@]
  ELSE IF ~st.installs[k] \/ isExtensionLog(text) THEN st
  ELSE [st EXCEPT !.capturedLogs = Append(@, logEntry(method, text))]

\* One wrapper after its call of the original: st holds the captureActive
\* flags, window.capturedLogs and the calls seen by the native console.
capture(k, st, method, text) ==
  IF ~st.installs[k] THEN st
  ELSE IF endsCapture(text) THEN [st EXCEPT !.installs[k] = FALSE]
  ELSE IF isExtensionLog(text) THEN st
  ELSE [st EXCEPT !.capturedLogs = Append(@, logEntry(method, text))]

\* console[method](text) as wrapper k sees it; wrapper 0 is the native
\* method.
RECURSIVE callWrapper(_, _, _, _)
callWrapper(k, st, method, text) ==
  IF k = 0
  THEN [st EXCEPT !.sinkCalls =
                    Append(@, [method |-> method, args |-> text])]
  ELSE LET below ==
             IF callsOriginal(st.installs[k])
             THEN callWrapper(k - 1, st, method, text)
             ELSE st
       IN capture(k, below, method, text)

\* An array is an object: truthy even when it is empty.
truthyArray(a) == TRUE

\* getConsoleLogs: window.capturedLogs || setupConsoleCapture(); the
\* wrappers after the call.
getConsoleLogs(logs, hooked, wrappers) ==
  IF truthyArray(logs) THEN wrappers
  ELSE setupConsoleCapture(hooked, wrappers)

\* content-simple.js is injected: the guard, setupConsoleCapture and, when
\* the report is built, getConsoleLogs.
ContentScriptInjected ==
  /\ setupCalls < MaxSetupCalls
  /\ IF bugReporterInitialized
     THEN UNCHANGED << bugReporterInitialized, consoleVars >>
     ELSE /\ bugReporterInitialized' = TRUE
          /\ installs' =
               getConsoleLogs(capturedLogs, TRUE,
                              setupConsoleCapture(consoleHooked, installs))
          /\ consoleHooked' = TRUE
          /\ setupCalls' = setupCalls + 1
          /\ UNCHANGED << capturedLogs, sinkCalls >>
  /\ UNCHANGED << pipelineRest, furtherVars, heuristicVars, parserVars,
                  samplerVars, argsVars,
                  reportVars >>

\* Refresh: the injected function clears bugReporterInitialized and leaves
\* consoleHooked alone.
RefreshClearsFlag ==
  /\ bugReporterInitialized
  /\ bugReporterInitialized' = FALSE
  /\ UNCHANGED << pipelineRest, furtherVars,
                  consoleVars, heuristicVars, parserVars,
                  samplerVars, argsVars,
                  reportVars >>

\* setTimeout(() => { captureActive = false; }, 2000) of wrapper k
CaptureWindowCloses(k) ==
  /\ k \in 1..Len(installs)
  /\ installs[k]
  /\ installs' = [installs EXCEPT ![k] = FALSE]
  /\ UNCHANGED << bugReporterInitialized, pipelineRest, furtherVars,
                  reportVars,
                  heuristicVars,
                  argsVars,
                  parserVars, samplerVars,
                  consoleHooked, capturedLogs, sinkCalls, setupCalls >>

\* Some script of the page's context calls console[method](text).
ConsoleCall(method, text) ==
  /\ Len(sinkCalls) < MaxConsoleCalls
  /\ LET st == callWrapper(Len(installs),
                           [ installs |-> installs,
                             capturedLogs |-> capturedLogs,
                             sinkCalls |-> sinkCalls ],
                           method, text)
     IN /\ installs' = st.installs
        /\ capturedLogs' = st.capturedLogs
        /\ sinkCalls' = st.sinkCalls
  /\ UNCHANGED << bugReporterInitialized, pipelineRest, furtherVars,
                  reportVars,
                  heuristicVars,
                  argsVars,
                  parserVars, samplerVars,
                  consoleHooked, setupCalls >>

ConsoleInit ==
  /\ PipelineIdle
  /\ ArgsIdle
  /\ ReportIdle
  /\ FurtherIdle
  /\ documentTitle = "Example Domain"
  /\ ConsoleIdle
  /\ HeuristicIdle
  /\ ParserIdle
  /\ SamplerIdle

ConsoleNext ==
  \/ ContentScriptInjected
  \/ RefreshClearsFlag
  \/ \E k \in 1..MaxSetupCalls : CaptureWindowCloses(k)
  \/ \E m \in methods, t \in LogTexts : ConsoleCall(m, t)

ConsoleSpec == ConsoleInit /\ [][ConsoleNext]_vars

\* C14: however often setupConsoleCapture has been called, every console
\* method carries one wrapper; a call that prints a message of the page
\* while capture is active adds exactly one entry to window.capturedLogs,
\* and no call adds more than one.
C14_InstallIsIdempotent ==
  [][ /\ consoleHooked' => Len(installs') = 1
      /\ \A m \in methods, t \in LogTexts :
           (ConsoleCall(m, t) /\ consoleHooked) =>
             /\ Len(capturedLogs') <= Len(capturedLogs) + 1
             /\ (installs[1] /\ ~endsCapture(t) /\ ~isExtensionLog(t)) =>
                  capturedLogs' = Append(capturedLogs, logEntry(m, t)) ]_vars

\* setupConsoleCapture has been called twice and a message logged after
\* the second call, inside the capture window, is in window.capturedLogs
\* once.
C14_Witness ==
  /\ setupCalls = 2
  /\ installs = << TRUE >>
  /\ Len(capturedLogs) = 1
  /\ capturedLogs[1].timestamp = 2
  /\ Len(sinkCalls) = 1

\* C15: every call of a hooked console method reaches the native method
\* exactly once, with the method's name and arguments unchanged, whether
\* capture is active or closed and whether the call is recorded or not.
C15_ChainsToOriginal ==
  [][ \A m \in methods, t \in LogTexts :
        (ConsoleCall(m, t) /\ consoleHooked) =>
          sinkCalls' = Append(sinkCalls, [method |-> m, args |-> t]) ]_vars

\* After two calls of setupConsoleCapture the native console has received
\* a recorded call, a filtered call and a call made after capture closed.
C15_Witness ==
  /\ setupCalls = 2
  /\ installs = << FALSE >>
  /\ Len(sinkCalls) = 3
  /\ sinkCalls[1].args = "page message"
  /\ sinkCalls[2].args = "bug reporter ready"
  /\ sinkCalls[3].args = "page message"
  /\ Len(capturedLogs) = 1

(***************************************************************************)
(* Report layout.                                                          *)
(***************************************************************************)
\* The lines every report of one kind holds, in order, whatever the page:
\* createGeminiEnhancedReport, createPatternBugReport (both end with
\* addConsoleLogsSection and addDomErrorsSection, which print their label
\* and a placeholder line when there is nothing to list) and the basic
\* report of the popup's last timer.
reportLayout(kind) ==
  CASE kind = "ai" ->
         << "## header", "### Gemini AI Analysis", "**URL:**",
            "**Page Title:**", "**Timestamp:**", "### Console Activity",
            "### Page Issues" >>
    [] kind = "pattern" ->
         << "## header", "### Pattern Analysis", "**URL:**",
            "**Page Title:**", "**Timestamp:**", "### Console Activity",
            "### Page Issues" >>
    [] kind = "basic" ->
         << "## Basic Page Report", "URL:", "Page Title:", "Timestamp:",
            "Note:" >>

lineSet(layout) == {layout[k] : k \in 1..Len(layout)}

\* The five fixed sections: header line, analysis label, URL/title/time
\* block, console activity and page issues.
hasFixedSections(layout) ==
  /\ layout[1] \in {"## header", "## Basic Page Report"}
  /\ lineSet(layout) \cap {"### Gemini AI Analysis", "### Pattern Analysis"}
       # {}
  /\ \/ {"**URL:**", "**Page Title:**", "**Timestamp:**"}
          \subseteq lineSet(layout)
     \/ {"URL:", "Page Title:", "Timestamp:"} \subseteq lineSet(layout)
  /\ "### Console Activity" \in lineSet(layout)
  /\ "### Page Issues" \in lineSet(layout)

\* C16: every report sent to the popup holds the five fixed sections,
\* whichever path produced it.
C16_FiveFixedSections ==
  \A k \in 1..Len(inbox) : hasFixedSections(reportLayout(inbox[k].kind))

(***************************************************************************)
(* Heuristic classifier (content-simple.js, enhancedFallbackHeader and     *)
(* analyzeContextWithPatterns).  A text is a sequence of words.            *)
(***************************************************************************)
\* String.prototype.toLowerCase, word by word.
lowerWord(w) ==
  CASE w = "Error" -> "error"          [] w = "Internal" -> "internal"
    [] w = "Server" -> "server"        [] w = "Not" -> "not"
    [] w = "Found" -> "found"          [] w = "Login" -> "login"
    [] w = "Access" -> "access"        [] w = "Denied" -> "denied"
    [] w = "Required" -> "required"    [] w = "Validation" -> "validation"
    [] w = "Warning" -> "warning"      [] w = "Connection" -> "connection"
    [] w = "TypeError" -> "typeerror"  [] w = "Network" -> "network"
    [] w = "ReferenceError" -> "referenceerror"
    [] w = "GitHub.com" -> "github.com"
    [] w = "Critical" -> "critical"
    [] OTHER -> w

toLowerCase(text) == [k \in 1..Len(text) |-> lowerWord(text[k])]

\* The needle is the word or a part of it.
hasPart(w, needle) ==
  \/ w = needle
  \/ << w, needle >> \in
       { << "typeerror", "error" >>, << "referenceerror", "error" >>,
         << ".validation-error", "validation" >>,
         << ".validation-error", "error" >>,
         << "www.google.com", "google.com" >>,
         << "login.microsoft.com", "microsoft.com" >>,
         << "login.microsoft.com", "login" >>,
         << "highlighted", "high" >> }

\* String.prototype.includes, the needle a sequence of words too.
strIncludes(text, needle) ==
  \E i \in 1..(Len(text) - Len(needle) + 1) :
    \A j \in 1..Len(needle) : hasPart(text[i + j - 1], needle[j])

includesAny(text, needles) == \E n \in needles : strIncludes(text, n)

\* errors.some(error => error.toLowerCase().includes(needle))
someError(errors, needle) ==
  \E e \in errors : strIncludes(toLowerCase(e), needle)

\* The conditions of enhancedFallbackHeader, by the name of their rule.
ruleHolds(rule, u, title, errors, content) ==
  LET lowerUrl == toLowerCase(u)
      lowerTitle == toLowerCase(title)
      lowerContent == toLowerCase(content)
  IN
  CASE rule = "http" ->
         \/ strIncludes(lowerUrl, << "error" >>)
         \/ strIncludes(lowerTitle, << "error" >>)
         \/ includesAny(lowerContent,
                        { << "404" >>, << "500" >>, << "not", "found" >>,
                          << "server", "error" >> })
    [] rule = "auth" ->
         includesAny(lowerContent,
                     { << "login" >>, << "sign", "in" >>,
                       << "unauthorized" >>, << "access", "denied" >> })
    [] rule = "typeerror" -> someError(errors, << "typeerror" >>)
    [] rule = "referenceerror" -> someError(errors, << "referenceerror" >>)
    [] rule = "network" -> someError(errors, << "network" >>)
    [] rule = "validation" ->
         \/ includesAny(lowerContent,
                        { << "required", "field" >>, << "validation" >> })
         \/ someError(errors, << "validation" >>)
    [] rule = "microsoft" ->
         includesAny(lowerUrl, { << "microsoft.com" >>, << "office.com" >> })
    [] rule = "github" -> strIncludes(lowerUrl, << "github.com" >>)
    [] rule = "google" -> strIncludes(lowerUrl, << "google.com" >>)
    [] rule = "generic" -> TRUE

\* The header each rule returns.
ruleHeader(rule) ==
  CASE rule = "http" -> "## HTTP Error Page (Pattern Analysis)"
    [] rule = "auth" -> "## Authentication Issue (Pattern Analysis)"
    [] rule = "typeerror" -> "## JavaScript TypeError (Pattern Analysis)"
    [] rule = "referenceerror" ->
         "## JavaScript Reference Error (Pattern Analysis)"
    [] rule = "network" -> "## Network Connection Issue (Pattern Analysis)"
    [] rule = "validation" -> "## Form Validation Issue (Pattern Analysis)"
    [] rule = "microsoft" -> "## Microsoft Service Issue (Pattern Analysis)"
    [] rule = "github" -> "## GitHub Platform Issue (Pattern Analysis)"
    [] rule = "google" -> "## Google Service Issue (Pattern Analysis)"
    [] rule = "generic" -> "## Page Issue Report (Pattern Analysis)"

\* Faulty variant: the authentication test comes before the HTTP test.
ruleOrder_authFirst ==
  << "auth", "http", "typeerror", "referenceerror", "network", "validation",
     "microsoft", "github", "google", "generic" >>

\* The if statements of enhancedFallbackHeader in the order of the text,
\* the closing return last.
ruleOrder ==
  << "http", "auth", "typeerror", "referenceerror", "network", "validation",
     "microsoft", "github", "google", "generic" >>

\* enhancedFallbackHeader: each if returns, so the first condition that
\* holds decides.  The title is read from the document.
enhancedFallbackHeader(u, errors, content) ==
  LET holds(k) == ruleHolds(ruleOrder[k], u, documentTitle, errors, content)
      first == CHOOSE k \in 1..Len(ruleOrder) :
                 holds(k) /\ \A j \in 1..(k - 1) : ~holds(j)
  IN ruleHeader(ruleOrder[first])

\* Number.prototype.toString for the confidences in use.
toString(n) ==
  CASE n = 60 -> "60" [] n = 70 -> "70" [] n = 75 -> "75" [] n = 80 -> "80"
    [] n = 85 -> "85"

\* Faulty variant: severity is declared without a value.
defaultSeverity_unset == << "undefined", 60 >>

\* let severity = 'informational'; let severityConfidence = 60;
defaultSeverity == << "informational", 60 >>

\* let context = 'general page issue'; let contextConfidence = 60;
defaultContext == << "general page issue", 60 >>

\* Faulty variant: the second chain is entered only when the first one
\* found nothing.
analyzeContextWithPatterns_oneChain(content) ==
  LET lowerContent == toLowerCase(content)
      has(needles) == includesAny(lowerContent, needles)
      sev ==
        IF has({ << "error" >>, << "failed" >>, << "404" >>, << "500" >> })
        THEN << "critical error", 85 >>
        ELSE IF has({ << "warning" >>, << "caution" >> })
        THEN << "warning", 75 >>
        ELSE IF has({ << "issue" >>, << "problem" >> })
        THEN << "minor issue", 70 >>
        ELSE defaultSeverity
      ctx ==
        IF sev # defaultSeverity THEN defaultContext
        ELSE IF has({ << "login" >>, << "unauthorized" >>,
                 << "access", "denied" >> })
        THEN << "user authentication failed", 80 >>
        ELSE IF has({ << "network" >>, << "connection" >>, << "timeout" >> })
        THEN << "network connectivity problem", 80 >>
        ELSE IF has({ << "server", "error" >>, << "500" >>,
                      << "internal", "error" >> })
        THEN << "server internal error", 85 >>
        ELSE IF has({ << "validation" >>, << "required", "field" >> })
        THEN << "form data validation issue", 75 >>
        ELSE IF has({ << "loading" >>, << "not", "found" >> })
        THEN << "page content loading problem", 75 >>
        ELSE defaultContext
  IN [ severity |-> sev[1],
       severityConfidence |-> toString(sev[2]),
       context |-> ctx[1],
       contextConfidence |-> toString(ctx[2]),
       analysisType |-> "pattern-based" ]

\* analyzeContextWithPatterns: two if-else chains over the lower-cased
\* content, each with a default.
analyzeContextWithPatterns(content) ==
  LET lowerContent == toLowerCase(content)
      has(needles) == includesAny(lowerContent, needles)
      sev ==
        IF has({ << "error" >>, << "failed" >>, << "404" >>, << "500" >> })
        THEN << "critical error", 85 >>
        ELSE IF has({ << "warning" >>, << "caution" >> })
        THEN << "warning", 75 >>
        ELSE IF has({ << "issue" >>, << "problem" >> })
        THEN << "minor issue", 70 >>
        ELSE defaultSeverity
      ctx ==
        IF has({ << "login" >>, << "unauthorized" >>,
                 << "access", "denied" >> })
        THEN << "user authentication failed", 80 >>
        ELSE IF has({ << "network" >>, << "connection" >>, << "timeout" >> })
        THEN << "network connectivity problem", 80 >>
        ELSE IF has({ << "server", "error" >>, << "500" >>,
                      << "internal", "error" >> })
        THEN << "server internal error", 85 >>
        ELSE IF has({ << "validation" >>, << "required", "field" >> })
        THEN << "form data validation issue", 75 >>
        ELSE IF has({ << "loading" >>, << "not", "found" >> })
        THEN << "page content loading problem", 75 >>
        ELSE defaultContext
  IN [ severity |-> sev[1],
       severityConfidence |-> toString(sev[2]),
       context |-> ctx[1],
       contextConfidence |-> toString(ctx[2]),
       analysisType |-> "pattern-based" ]

\* The pages classified: addresses, titles, contents and error lists, the
\* empty ones among them.
Urls ==
  { << >>, << "https://", "example.com" >>,
    << "https://", "example.com", "/", "Error" >>,
    << "https://", "GitHub.com" >>, << "https://", "login.microsoft.com" >>,
    << "https://", "www.google.com" >>, << "https://", "office.com" >> }

PageTitles ==
  { << >>, << "Example", "Domain" >>,
    << "500", "Internal", "Server", "Error" >> }

Contents ==
  { << >>, << "Welcome" >>, << "404", "Not", "Found" >>,
    << "Please", "Login" >>, << "Access", "Denied" >>,
    << "Required", "field" >>, << "Validation", "failed" >>,
    << "loading" >>, << "Warning" >>, << "Connection", "timeout" >>,
    << "a", "problem" >>, << "Internal", "error" >>,
    << "Login", "failed" >>, << "Login", "Warning" >>,
    << "Connection", "timeout", "Login" >>, << "500", "loading" >> }

ErrorTexts ==
  { << "JavaScript", "Error:", "TypeError" >>,
    << "JavaScript", "Error:", "ReferenceError" >>,
    << "JavaScript", "Error:", "Network", "failure" >>,
    << "DOM", "Error", ".validation-error", "Required" >> }

HeuristicInit ==
  /\ PipelineIdle
  /\ ArgsIdle
  /\ ReportIdle
  /\ FurtherIdle
  /\ ConsoleIdle
  /\ ParserIdle
  /\ SamplerIdle
  /\ documentTitle \in PageTitles
  /\ url \in Urls
  /\ pageContent \in Contents
  /\ domErrors \in SUBSET ErrorTexts
  /\ smartHeader = "none"
  /\ context = "none"

\* createPatternBugReport, the two calls of the classifier.
ClassifyPage ==
  /\ smartHeader = "none"
  /\ smartHeader' = enhancedFallbackHeader(url, domErrors, pageContent)
  /\ context' = analyzeContextWithPatterns(pageContent)
  /\ UNCHANGED << bugReporterInitialized, pipelineRest, furtherVars,
                  reportVars, consoleVars,
                  argsVars,
                  parserVars, samplerVars, url,
                  pageContent, domErrors >>

\* The page changes its address (history.pushState); the next report
\* classifies it again.
Navigate ==
  /\ smartHeader # "none"
  /\ smartHeader' = "none"
  /\ context' = "none"
  /\ url' \in Urls
  /\ UNCHANGED << bugReporterInitialized, pipelineRest, furtherVars,
                  reportVars, consoleVars,
                  argsVars,
                  parserVars, samplerVars, pageContent, domErrors >>

HeuristicNext == ClassifyPage \/ Navigate

HeuristicSpec == HeuristicInit /\ [][HeuristicNext]_vars

\* C17: the header returned is that of the first rule, in the order HTTP
\* error, authentication, TypeError, ReferenceError, network, validation,
\* Microsoft, GitHub, Google, generic, whose condition holds; when the HTTP
\* condition holds the HTTP header is returned whatever else holds.
C17_FirstMatchingRule ==
  LET order == << "http", "auth", "typeerror", "referenceerror", "network",
                  "validation", "microsoft", "github", "google", "generic" >>
      holds(k) ==
        ruleHolds(order[k], url, documentTitle, domErrors, pageContent)
  IN smartHeader # "none" =>
       /\ holds(1) => smartHeader = "## HTTP Error Page (Pattern Analysis)"
       /\ \E k \in 1..Len(order) :
            /\ smartHeader = ruleHeader(order[k])
            /\ holds(k)
            /\ \A j \in 1..(k - 1) : ~holds(j)

\* A page titled "500 Internal Server Error" that asks for a login, on
\* github.com, with a TypeError among its errors, got the HTTP header.
C17_Witness ==
  /\ documentTitle = << "500", "Internal", "Server", "Error" >>
  /\ pageContent = << "Please", "Login" >>
  /\ url = << "https://", "GitHub.com" >>
  /\ << "JavaScript", "Error:", "TypeError" >> \in domErrors
  /\ smartHeader = "## HTTP Error Page (Pattern Analysis)"

\* C18: the classifier is total: every page can be classified, and the
\* result has a header, a severity band and a context label of the known
\* ones, the generic ones when no other rule matches.
C18_ClassifierIsTotal ==
  LET others == { ruleOrder[k] : k \in 1..(Len(ruleOrder) - 1) }
      noRule == \A q \in others :
                  ~ruleHolds(q, url, documentTitle, domErrors, pageContent)
  IN
  /\ smartHeader = "none" => ENABLED ClassifyPage
  /\ smartHeader # "none" =>
       /\ smartHeader \in { ruleHeader(ruleOrder[k]) : k \in 1..Len(ruleOrder) }
       /\ context.severity \in
            {"critical error", "warning", "minor issue", "informational"}
       /\ context.context \in
            {"user authentication failed", "network connectivity problem",
             "server internal error", "form data validation issue",
             "page content loading problem", "general page issue"}
       /\ noRule => smartHeader = "## Page Issue Report (Pattern Analysis)"
       /\ pageContent \in {<< >>, << "Welcome" >>} =>
            /\ context.severity = "informational"
            /\ context.context = "general page issue"

\* The empty page (no address, title, content or errors) got the generic
\* header, severity and context.
C18_Witness ==
  /\ url = << >> /\ documentTitle = << >> /\ pageContent = << >>
  /\ domErrors = {}
  /\ smartHeader = "## Page Issue Report (Pattern Analysis)"
  /\ context.severity = "informational"
  /\ context.context = "general page issue"

\* C30: the result of analyzeContextWithPatterns is made of two ordered
\* first-match passes over the content.  The severity and its confidence
\* are those of the first severity rule that matches, the context and its
\* confidence those of the first context rule that matches, with the
\* defaults at 60 when none does; and two contents that match the same
\* context rules get the same context and confidence whatever their
\* severity.
C30_TwoIndependentPasses ==
  LET severityRules ==
        << [ needles |-> { << "error" >>, << "failed" >>, << "404" >>,
                           << "500" >> },
             label |-> "critical error", confidence |-> "85" ],
           [ needles |-> { << "warning" >>, << "caution" >> },
             label |-> "warning", confidence |-> "75" ],
           [ needles |-> { << "issue" >>, << "problem" >> },
             label |-> "minor issue", confidence |-> "70" ],
           [ needles |-> { << >> },
             label |-> "informational", confidence |-> "60" ] >>
      contextRules ==
        << [ needles |-> { << "login" >>, << "unauthorized" >>,
                           << "access", "denied" >> },
             label |-> "user authentication failed", confidence |-> "80" ],
           [ needles |-> { << "network" >>, << "connection" >>,
                           << "timeout" >> },
             label |-> "network connectivity problem",
             confidence |-> "80" ],
           [ needles |-> { << "server", "error" >>, << "500" >>,
                           << "internal", "error" >> },
             label |-> "server internal error", confidence |-> "85" ],
           [ needles |-> { << "validation" >>, << "required", "field" >> },
             label |-> "form data validation issue", confidence |-> "75" ],
           [ needles |-> { << "loading" >>, << "not", "found" >> },
             label |-> "page content loading problem",
             confidence |-> "75" ],
           [ needles |-> { << >> },
             label |-> "general page issue", confidence |-> "60" ] >>
      hits(rules, content) ==
        { k \in 1..Len(rules) :
            includesAny(toLowerCase(content), rules[k].needles) }
      first(rules, content) ==
        rules[CHOOSE k \in hits(rules, content) :
                \A j \in hits(rules, content) : k <= j]
  IN smartHeader # "none" =>
       /\ context.severity = first(severityRules, pageContent).label
       /\ context.severityConfidence
            = first(severityRules, pageContent).confidence
       /\ context.context = first(contextRules, pageContent).label
       /\ context.contextConfidence
            = first(contextRules, pageContent).confidence
       /\ \A other \in Contents :
            hits(contextRules, other) = hits(contextRules, pageContent) =>
              /\ analyzeContextWithPatterns(other).context = context.context
              /\ analyzeContextWithPatterns(other).contextConfidence
                   = context.contextConfidence

\* A page that says 'Login failed' got the severity of its first word
\* that matches a severity rule and the context of the login rule.
C30_Witness ==
  /\ pageContent = << "Login", "failed" >>
  /\ smartHeader # "none"
  /\ context.severity = "critical error"
  /\ context.severityConfidence = "85"
  /\ context.context = "user authentication failed"
  /\ context.contextConfidence = "80"

(***************************************************************************)
(* parseGeminiResponse (gemini-ai.js).  A text is a sequence of tokens:    *)
(* braces, brackets, code fences, prose, a key that precedes an object     *)
(* value, and fields (key and string value).  White space and commas are   *)
(* not represented.                                                        *)
(***************************************************************************)
tok(t) == [t |-> t, key |-> "", value |-> ""]
field(k, v) == [t |-> "field", key |-> k, value |-> v]
member(k) == [t |-> "key", key |-> k, value |-> ""]
word(w) == [t |-> "prose", key |-> "", value |-> w]

\* The values of JSON that are not strings, as the texts name them.
NotStrings ==
  { "num:0", "num:42", "num:150", "bool:false", "bool:true", "json null",
    "json object", "json empty array" }

\* !value: undefined (the empty string stands for it too), "", 0, false
\* and null are falsy; every object is truthy.
falsy(v) == v \in {"", "num:0", "bool:false", "json null"}

\* a || b
or(a, b) == IF falsy(a) THEN b ELSE a

\* String(arg)
String(arg) ==
  CASE arg = "num:0" -> "0"           [] arg = "num:42" -> "42"
    [] arg = "num:150" -> "150"
    [] arg = "bool:false" -> "false"  [] arg = "bool:true" -> "true"
    [] arg = "json null" -> "null"
    [] arg = "json object" -> "[object Object]"
    [] arg = "json empty array" -> ""
    [] arg = "symbol" -> "Symbol(s)"
    [] OTHER -> arg

\* The two replace calls that delete the code fences.
stripFences(text) ==
  SelectSeq(text, LAMBDA x : x.t \notin {"fence json", "fence"})

\* The run of characters other than braces from position i: the position
\* of the next brace, or the end.
RECURSIVE skipPlain(_, _)
skipPlain(text, i) ==
  IF i > Len(text) \/ text[i].t \in {"{", "}"} THEN i
  ELSE skipPlain(text, i + 1)

\* The rest of the pattern from position i, a brace or the end: any
\* number of inner objects without braces inside, each followed by a run
\* without braces, then the closing brace.  Where the match ends, 0 when
\* there is none.
RECURSIVE matchGroups(_, _)
matchGroups(text, i) ==
  IF i > Len(text) THEN 0
  ELSE IF text[i].t = "}" THEN i
  ELSE LET j == skipPlain(text, i + 1) IN
       IF j <= Len(text) /\ text[j].t = "}"
       THEN matchGroups(text, skipPlain(text, j + 1))
       ELSE 0

\* The pattern of cleanedText.match tried at position i.
matchAt(text, i) ==
  IF text[i].t = "{" THEN matchGroups(text, skipPlain(text, i + 1)) ELSE 0

\* cleanedText.match: the leftmost match, the empty sequence for null.
jsonMatch(text) ==
  LET starts == {i \in 1..Len(text) : matchAt(text, i) # 0} IN
  IF starts = {} THEN << >>
  ELSE LET i == CHOOSE i \in starts : \A k \in starts : i <= k
       IN SubSeq(text, i, matchAt(text, i))

\* How many objects are open before position k.
depthAt(text, k) ==
  Cardinality({i \in 1..(k - 1) : text[i].t = "{"})
    - Cardinality({i \in 1..(k - 1) : text[i].t = "}"})

\* JSON.parse accepts the text of an object: fields and keys only between
\* the braces, every key followed by an object and every inner object
\* preceded by a key.
parses(str) ==
  /\ Len(str) >= 2 /\ str[1].t = "{" /\ str[Len(str)].t = "}"
  /\ \A k \in 2..(Len(str) - 1) :
       /\ str[k].t \in {"field", "key", "{", "}"}
       /\ str[k].t = "key" => str[k + 1].t = "{"
       /\ str[k].t = "{" => str[k - 1].t = "key"
       /\ str[k].t = "}" => depthAt(str, k) >= 2

\* finalAnalysis[name]: the value of the member of the object itself, the
\* empty string standing for undefined.
fieldOf(str, name) ==
  LET at == {k \in 1..Len(str) :
               /\ str[k].t \in {"field", "key"}
               /\ str[k].key = name
               /\ depthAt(str, k) = 1}
      first == str[CHOOSE k \in at : \A m \in at : m <= k]
  IN IF at = {} THEN ""
     ELSE IF first.t = "key" THEN "json object"
     ELSE first.value

\* Faulty variant: asks for the words of 'high' first.
extractSeverity_highFirst(text) ==
  LET has(words) ==
        \E k \in 1..Len(text), w \in words :
          hasPart(lowerWord(text[k].value), w)
  IN
  IF has({"high", "major"}) THEN "high"
  ELSE IF has({"critical", "severe"}) THEN "critical"
  ELSE IF has({"medium", "moderate"}) THEN "medium"
  ELSE "low"

\* extractSeverity: the lower-cased text is searched for the words of
\* each severity in turn, whichever field or sentence holds them.
extractSeverity(text) ==
  LET has(words) ==
        \E k \in 1..Len(text), w \in words :
          hasPart(lowerWord(text[k].value), w)
  IN
  IF has({"critical", "severe"}) THEN "critical"
  ELSE IF has({"high", "major"}) THEN "high"
  ELSE IF has({"medium", "moderate"}) THEN "medium"
  ELSE "low"

\* The catch block of parseGeminiResponse.
parseFallback(text) ==
  [ header |-> "## AI Analysis Results (85% confidence)",
    severity |-> extractSeverity(text),
    severityConfidence |-> "85",
    category |-> "general analysis",
    categoryConfidence |-> "80",
    summary |-> "responseText.slice(0, 200)...",
    priority |-> "medium",
    analysisType |-> "Gemini AI" ]

\* Array.isArray of what JSON.parse returned.
isArray(str) == str[1].t = "["

required == {"header", "severity", "category", "summary"}

\* parseGeminiResponse: the fences are deleted, the pattern is matched,
\* JSON.parse is applied to the match, the required fields are checked;
\* any failure leads to the catch block.
parseGeminiResponse(text) ==
  LET jsonStr == jsonMatch(stripFences(text)) IN
  IF jsonStr = << >> \/ ~parses(jsonStr) THEN parseFallback(text)
  ELSE LET finalAnalysis ==
             IF isArray(jsonStr)
             THEN SubSeq(jsonStr, 2, Len(jsonStr) - 1)
             ELSE jsonStr
           get(name, default) ==
             String(or(fieldOf(finalAnalysis, name), default))
       IN IF \E name \in required : falsy(fieldOf(finalAnalysis, name))
          THEN parseFallback(text)
          ELSE [ header |-> get("header", "## AI Analysis Results"),
                 severity |-> get("severity", "medium"),
                 severityConfidence |-> get("severityConfidence", "85"),
                 category |-> get("category", "general analysis"),
                 categoryConfidence |-> get("categoryConfidence", "80"),
                 summary |-> get("summary", "Analysis completed"),
                 priority |-> get("priority", "medium"),
                 analysisType |-> "Gemini AI" ]

\* The answers parsed: an object with the four required fields, alone or
\* with a member that is an object (which may hold an object in turn), in
\* front of the fields or behind them.
Fields(h, sev) ==
  << field("header", h), field("severity", sev), field("category", "c"),
     field("summary", "s") >>

inner == << tok("key"), tok("{"), field("status", "500"), tok("}") >>

inner2 ==
  << tok("key"), tok("{"), field("url", "/api") >> \o inner \o << tok("}") >>

Objects ==
  { << tok("{") >> \o front \o Fields(h, sev) \o back \o << tok("}") >> :
      front \in {<< >>, inner}, back \in {<< >>, inner, inner2},
      h \in {"## X", "## Y"}, sev \in {"high", "low"} }

\* The object as the model wraps it: bare, in code fences, after or before
\* a sentence, in an array of one element, and the array in code fences.
Wrapped(obj) ==
  { obj,
    << tok("fence json") >> \o obj \o << tok("fence") >>,
    << tok("prose") >> \o obj,
    obj \o << tok("prose") >>,
    << tok("[") >> \o obj \o << tok("]") >>,
    << tok("fence json"), tok("[") >> \o obj \o << tok("]"), tok("fence") >> }

\* Answers without an object: one or two words of a sentence.
Words ==
  {"Critical", "severe", "high", "major", "highlighted", "moderate", "fine"}

Prose == UNION { [1..n -> {word(w) : w \in Words}] : n \in 1..2 }

\* Braces around something that is not JSON.
Malformed == { << tok("{"), word(w), tok("}") >> : w \in Words }

\* Objects whose members have other types than string, or are absent.
Headers ==
  { << field("header", v) >> :
      v \in {"## X", "num:42", "num:0", "bool:true", "json null",
             "json empty array"} }
    \cup { << member("header"), tok("{"), field("level", "2"), tok("}") >> }

\* The confidences an answer may carry: a number within 0-100 or beyond
\* it, the number as a string, or none.
Confidences(name) ==
  { << field(name, v) >> : v \in {"num:0", "num:42", "num:150", "90"} }
    \cup {<< >>}

Typed ==
  { << tok("{") >> \o h \o << field("severity", sev) >> \o sc
      \o << field("category", "c") >> \o cc \o sm \o pr \o << tok("}") >> :
      h \in Headers, sev \in {"high", "num:42", "bool:false"},
      sc \in Confidences("severityConfidence"),
      cc \in Confidences("categoryConfidence"),
      sm \in {<< field("summary", "s") >>, << >>},
      pr \in { << field("priority", v) >> :
                 v \in {"critical", "json null", "num:42"} } \cup {<< >>} }

Responses ==
  UNION { Wrapped(obj) : obj \in Objects } \cup Prose \cup Malformed \cup Typed

ParserInit ==
  /\ PipelineIdle
  /\ ArgsIdle
  /\ ReportIdle
  /\ FurtherIdle
  /\ documentTitle = "Example Domain"
  /\ ConsoleIdle
  /\ HeuristicIdle
  /\ SamplerIdle
  /\ responseText \in Responses
  /\ parsed = NoAnalysis

\* analyzeBugReport hands the text of the answer to parseGeminiResponse.
ParseResponse ==
  /\ parsed = NoAnalysis
  /\ parsed' = parseGeminiResponse(responseText)
  /\ UNCHANGED << bugReporterInitialized, pipelineRest, furtherVars,
                  reportVars, consoleVars,
                  argsVars,
                  heuristicVars, samplerVars, responseText >>

ParserNext == ParseResponse

ParserSpec == ParserInit /\ [][ParserNext]_vars

\* C19: the result of parseGeminiResponse holds the header, severity,
\* category and summary of the first balanced JSON object of the answer,
\* whether the object is bare, in code fences, next to a sentence or in an
\* array of one element, and whatever objects it holds (the object has
\* the four fields, each with a value that is not falsy).
C19_FieldsOfFirstObject ==
  LET text == responseText
      opens(i, k) == Cardinality({m \in i..k : text[m].t = "{"})
      closes(i, k) == Cardinality({m \in i..k : text[m].t = "}"})
      balanced(i, j) ==
        /\ text[i].t = "{" /\ text[j].t = "}"
        /\ opens(i, j) = closes(i, j)
        /\ \A k \in i..(j - 1) : opens(i, k) > closes(i, k)
      objects == { << i, j >> \in (1..Len(text)) \X (1..Len(text)) :
                     i < j /\ balanced(i, j) /\ parses(SubSeq(text, i, j)) }
      first == CHOOSE o \in objects : \A q \in objects : o[1] <= q[1]
      object == SubSeq(text, first[1], first[2])
  IN ( /\ parsed # NoAnalysis
       /\ objects # {}
       /\ \A name \in required : ~falsy(fieldOf(object, name)) )
     => \A name \in required : parsed[name] = String(fieldOf(object, name))

\* C23: when the answer of the model holds no object, when what it holds
\* is not JSON, or when the object lacks a required field, the result of
\* parseGeminiResponse is the synthesized one and its
\* severity comes from the words of the raw answer: critical for
\* 'critical' or 'severe', else high for 'high' or 'major', else medium for
\* 'medium' or 'moderate', else low.
C23_FallbackSeverityByKeyword ==
  LET text == responseText
      mentions(w) ==
        \E k \in 1..Len(text) : hasPart(lowerWord(text[k].value), w)
      jsonStr == jsonMatch(stripFences(text))
      fails ==
        \/ jsonStr = << >>
        \/ ~parses(jsonStr)
        \/ \E name \in required : falsy(fieldOf(jsonStr, name))
  IN (parsed # NoAnalysis /\ fails) =>
          /\ parsed.header = "## AI Analysis Results (85% confidence)"
          /\ mentions("critical") \/ mentions("severe")
               => parsed.severity = "critical"
          /\ ( /\ ~(mentions("critical") \/ mentions("severe"))
               /\ mentions("high") \/ mentions("major") )
               => parsed.severity = "high"
          /\ ( /\ ~(mentions("critical") \/ mentions("severe"))
               /\ ~(mentions("high") \/ mentions("major"))
               /\ mentions("medium") \/ mentions("moderate") )
               => parsed.severity = "medium"
          /\ ~(\E w \in {"critical", "severe", "high", "major", "medium",
                         "moderate"} : mentions(w))
               => parsed.severity = "low"

\* An answer without an object that says 'high' before 'Critical' has
\* been given the severity critical.
C23_Witness ==
  /\ responseText = << word("high"), word("Critical") >>
  /\ parsed.header = "## AI Analysis Results (85% confidence)"
  /\ parsed.severity = "critical"

\* C24: every result of parseGeminiResponse has a header, a severity, a
\* category and a summary that are not empty, and each of its fields is a
\* string, whatever the types of the values in the answer.
C24_RequiredFieldsAreStrings ==
  parsed # NoAnalysis =>
    /\ \A name \in required : parsed[name] # ""
    /\ \A name \in DOMAIN parsed : parsed[name] \notin NotStrings

\* The number a confidence of a result or of an answer stands for; -1
\* when it is no number.
percent(v) ==
  CASE v \in {"0", "num:0"} -> 0      [] v \in {"42", "num:42"} -> 42
    [] v = "80" -> 80                  [] v = "85" -> 85
    [] v = "90" -> 90                  [] v \in {"150", "num:150"} -> 150
    [] OTHER -> -1

\* C31: the severityConfidence and the categoryConfidence of every result
\* of parseGeminiResponse lie within 0 to 100, and when the answer of the
\* model is an object with the required fields that carries a value
\* within 0 to 100 (0 included) the result has that value.
C31_ConfidenceInRange ==
  LET jsonStr == jsonMatch(stripFences(responseText))
      given(name) ==
        IF jsonStr # << >> /\ parses(jsonStr) THEN fieldOf(jsonStr, name)
        ELSE ""
  IN parsed # NoAnalysis =>
       \A name \in {"severityConfidence", "categoryConfidence"} :
         /\ percent(parsed[name]) \in 0..100
         /\ ( /\ \A r \in required : ~falsy(given(r))
              /\ percent(given(name)) \in 0..100 )
              => percent(parsed[name]) = percent(given(name))

(***************************************************************************)
(* Performance sampler (performance-monitor.js, class PerformanceMonitor,  *)
(* as createGeminiEnhancedReport uses it).                                 *)
(***************************************************************************)
MaxSamplings == 2

\* The entry types setupObservers asks for, and the ReportingObserver.
EntryTypes ==
  {"longtask", "layout-shift", "largest-contentful-paint", "first-input",
   "resource"}

ObserverKinds == EntryTypes \cup {"ReportingObserver"}

\* setupObservers: one observer for every entry type the browser supports,
\* one ReportingObserver when the browser has it; each is pushed on
\* this.observers.
setupObservers(m) ==
  [m EXCEPT !.observers = @ \cup (ObserverKinds \cap supported)]

\* detectNetworkIssues and monitorSlowInteractions: window.fetch and
\* XMLHttpRequest.prototype.open are replaced by wrappers around the
\* functions found, and three listeners are added to the document.  The
\* originals stay in local constants and the listeners are anonymous.
installHooks(h) ==
  [h EXCEPT !.fetch = @ + 1, !.xhrOpen = @ + 1, !.listeners = @ + 3]

\* stopMonitoring: the observers are disconnected and the list emptied.
stopMonitoring(m) == [m EXCEPT !.observers = {}, !.isMonitoring = FALSE]

\* createGeminiEnhancedReport makes a monitor and awaits startMonitoring.
StartMonitoring ==
  /\ monitor.pc = "idle"
  /\ samplings < MaxSamplings
  /\ samplings' = samplings + 1
  /\ monitor' = [setupObservers(NewMonitor) EXCEPT !.pc = "sampling",
                                                  !.isMonitoring = TRUE]
  /\ hooks' = installHooks(hooks)
  /\ UNCHANGED << bugReporterInitialized, pipelineRest, furtherVars,
                  reportVars, consoleVars,
                  argsVars,
                  heuristicVars, parserVars, supported >>

\* The two seconds are over: generatePerformanceReport, stopMonitoring.
SamplingWindowEnds ==
  /\ monitor.pc = "sampling"
  /\ monitor' = [stopMonitoring(monitor) EXCEPT !.pc = "stopped"]
  /\ UNCHANGED << bugReporterInitialized, pipelineRest, furtherVars,
                  reportVars, consoleVars,
                  argsVars,
                  heuristicVars, parserVars, supported, hooks, samplings >>

\* The run ends; the next run of the content script makes its own monitor.
RunEnds ==
  /\ monitor.pc = "stopped"
  /\ monitor' = NewMonitor
  /\ UNCHANGED << bugReporterInitialized, pipelineRest, furtherVars,
                  reportVars, consoleVars,
                  argsVars,
                  heuristicVars, parserVars, supported, hooks, samplings >>

SamplerInit ==
  /\ PipelineIdle
  /\ ArgsIdle
  /\ ReportIdle
  /\ FurtherIdle
  /\ documentTitle = "Example Domain"
  /\ ConsoleIdle
  /\ HeuristicIdle
  /\ ParserIdle
  /\ supported \in SUBSET ObserverKinds
  /\ monitor = NewMonitor
  /\ hooks = NoHooks
  /\ samplings = 0

SamplerNext == StartMonitoring \/ SamplingWindowEnds \/ RunEnds

SamplerSpec == SamplerInit /\ [][SamplerNext]_vars

\* C20: once the sampling window is over nothing the sampler installed is
\* left: no observer is connected, window.fetch and
\* XMLHttpRequest.prototype.open are the page's own again, and no
\* interaction listener of the sampler is on the document.
C20_SamplerDetachesEverything ==
  monitor.pc \in {"stopped", "idle"} =>
    /\ monitor.observers = {}
    /\ hooks = NoHooks

(***************************************************************************)
(* Collection of the signals on the path of the remote analyzer            *)
(* (src/content-simple.js, lines 84-121).                                  *)
(***************************************************************************)
\* C21: when a collector fails while the snapshot of a run on the path of
\* the remote analyzer is built (the page scan reads document.body, which
\* the page has removed), the run stays on that path: its first request to
\* the model is sent.
C21_CollectorFailureKeepsPath ==
  [][ \A r \in Runs :
        ( /\ RunCollects(r)
          /\ ~bodyPresent )
        => /\ run'[r].pc = "fetch"
           /\ run'[r].issued # << >> ]_vars

(***************************************************************************)
(* The wrapper's body for one call (content-simple.js, lines 19-50), while *)
(* capture is active and the text is neither a marker nor a log of the     *)
(* extension.                                                              *)
(***************************************************************************)
MaxArgs == 2

\* Values a page may pass to a console method.
ArgValues ==
  { "page message", "42", "undefined", "null", "plain object",
    "circular object", "null-prototype object", "symbol" }

\* typeof arg === 'object'
typeofObject(arg) ==
  arg \in {"null", "plain object", "circular object",
           "null-prototype object"}

\* JSON.stringify(arg, null, 2) of an object: a TypeError for a structure
\* that refers to itself, the JSON text otherwise.
JSONstringify(arg) ==
  CASE arg = "circular object" -> [threw |-> TRUE, text |-> ""]
    [] arg = "null" -> [threw |-> FALSE, text |-> "null"]
    [] arg = "null-prototype object" -> [threw |-> FALSE, text |-> "{}"]
    [] OTHER -> [threw |-> FALSE, text |-> "{ a: 1 }"]

\* The conversion Array.prototype.join applies to an element: undefined
\* and null give the empty string, every other value goes through
\* ToString, which throws a TypeError for a symbol and for an object
\* without toString.
joinElement(arg) ==
  CASE arg \in {"undefined", "null"} -> [threw |-> FALSE, text |-> ""]
    [] arg \in {"symbol", "null-prototype object"} ->
         [threw |-> TRUE, text |-> ""]
    [] arg \in {"plain object", "circular object"} ->
         [threw |-> FALSE, text |-> "[object Object]"]
    [] OTHER -> [threw |-> FALSE, text |-> arg]

\* args.join(' ') throws when the conversion of one element does.
joinThrows(args) == \E i \in 1..Len(args) : joinElement(args[i]).threw

\* The callback of args.map, with its try and catch.
mapArg(arg) ==
  IF typeofObject(arg)
  THEN IF JSONstringify(arg).threw
       THEN "[Circular Object]"
       ELSE JSONstringify(arg).text
  ELSE String(arg)    \* String accepts a symbol

\* The body of the wrapper after the call of the original method: logText
\* is computed first, outside any try block, then the entry is built and
\* pushed.
wrapperBody(args) ==
  IF joinThrows(args)
  THEN [pc |-> "threw", entry |-> << >>]
  ELSE [pc |-> "returned",
        entry |-> [i \in 1..Len(args) |-> mapArg(args[i])]]

ArgLists == UNION { [1..n -> ArgValues] : n \in 1..MaxArgs }

ArgsInit ==
  /\ PipelineIdle
  /\ documentTitle = "Example Domain"
  /\ ConsoleIdle
  /\ HeuristicIdle
  /\ ParserIdle
  /\ SamplerIdle
  /\ ReportIdle
  /\ FurtherIdle
  /\ callArgs \in ArgLists
  /\ wrapperResult = NotCalled

\* The page calls console[method](...callArgs).
WrapperRuns ==
  /\ wrapperResult = NotCalled
  /\ wrapperResult' = wrapperBody(callArgs)
  /\ UNCHANGED << bugReporterInitialized, pipelineRest, furtherVars,
                  consoleVars,
                  heuristicVars, parserVars, samplerVars, reportVars,
                  callArgs >>

\* The page makes another call.
NextCall ==
  /\ wrapperResult # NotCalled
  /\ callArgs' \in ArgLists
  /\ wrapperResult' = NotCalled
  /\ UNCHANGED << bugReporterInitialized, pipelineRest, furtherVars,
                  consoleVars,
                  heuristicVars, parserVars, samplerVars, reportVars >>

ArgsNext == WrapperRuns \/ NextCall

ArgsSpec == ArgsInit /\ [][ArgsNext]_vars

\* C22: whatever the arguments of a call of a hooked console method, the
\* wrapper returns to the page without an exception, the entry it records
\* has one text per argument, and the text of an argument that cannot be
\* serialized is the sentinel.
C22_UnserializableArgsAreSafe ==
  wrapperResult # NotCalled =>
    /\ wrapperResult.pc = "returned"
    /\ Len(wrapperResult.entry) = Len(callArgs)
    /\ \A i \in 1..Len(callArgs) :
         callArgs[i] = "circular object" =>
           wrapperResult.entry[i] = "[Circular Object]"

(***************************************************************************)
(* The snapshot and the rendering of a report (content-simple.js,          *)
(* createGeminiEnhancedReport 98-121 and 201-209, createPatternBugReport   *)
(* 216-242, getDomErrors, addConsoleLogsSection, addDomErrorsSection).     *)
(* A line of a report is a sequence of texts.  pageData.consoleErrors is   *)
(* the array window.capturedLogs itself and pageData.domErrors the array   *)
(* getDomErrors returned: neither is copied.                               *)
(***************************************************************************)
MaxErrorEvents == 2

\* What getDomErrors finds in the document.
DomFindings == { << >>, << "DOM Error (.error): Login failed" >> }

\* String.prototype.toUpperCase of the name of a console method
toUpperCase(method) ==
  CASE method = "log" -> "LOG"      [] method = "warn" -> "WARN"
    [] method = "error" -> "ERROR"  [] method = "info" -> "INFO"
    [] method = "debug" -> "DEBUG"

\* addConsoleLogsSection
addConsoleLogsSection(consoleLogs) ==
  << << "### Console Activity" >> >>
    \o ( IF Len(consoleLogs) > 0
         THEN [k \in 1..Len(consoleLogs) |->
                 << toUpperCase(consoleLogs[k].method), consoleLogs[k].args >>]
         ELSE << << "No console activity detected." >> >> )
    \o << << "" >> >>

\* addDomErrorsSection
addDomErrorsSection(errs) ==
  << << "### Page Issues" >> >>
    \o ( IF Len(errs) > 0
         THEN [k \in 1..Len(errs) |-> << "-", errs[k] >>]
         ELSE << << "No obvious page issues found." >> >> )
    \o << << "" >> >>

\* Faulty variant: the page issues come before the console section.
buildReport_issuesFirst(kind, consoleLogs, errs) ==
  [k \in 1..5 |-> << reportLayout(kind)[k] >>]
    \o addDomErrorsSection(errs)
    \o addConsoleLogsSection(consoleLogs)

\* The report of createGeminiEnhancedReport or createPatternBugReport:
\* the header, the analysis section and the block of URL, title and time,
\* then the two sections.
buildReport(kind, consoleLogs, errs) ==
  [k \in 1..5 |-> << reportLayout(kind)[k] >>]
    \o addConsoleLogsSection(consoleLogs)
    \o addDomErrorsSection(errs)

\* The report of the function the popup's last timer injects.
basicReport ==
  [k \in 1..Len(reportLayout("basic")) |-> << reportLayout("basic")[k] >>]

\* createGeminiEnhancedReport builds pageData and analyzeBugReport writes
\* the prompt, with JSON.stringify of both arrays, before its first
\* request.
BuildPageData(found) ==
  /\ bugReporterInitialized
  /\ reportPc = "idle"
  /\ liveErrors' = found
  /\ prompt' = [ built |-> TRUE, consoleErrors |-> capturedLogs,
                 domErrors |-> found ]
  /\ reportPc' = "inflight"
  /\ UNCHANGED << bugReporterInitialized, pipelineRest, furtherVars,
                  consoleVars,
                  heuristicVars, parserVars, samplerVars, argsVars,
                  report >>

\* The listener getDomErrors added to the window receives an 'error'
\* event and pushes onto the array it closed over.
ErrorEvent ==
  /\ reportPc # "idle"
  /\ Len(liveErrors) < MaxErrorEvents
  /\ liveErrors' = Append(liveErrors, "JavaScript Error: boom")
  /\ UNCHANGED << bugReporterInitialized, pipelineRest, furtherVars,
                  consoleVars,
                  heuristicVars, parserVars, samplerVars, argsVars,
                  prompt, report, reportPc >>

\* analyzeBugReport returns: the report is built from pageData and sent.
AnalysisArrives ==
  /\ reportPc = "inflight"
  /\ report' = buildReport("ai", capturedLogs, liveErrors)
  /\ reportPc' = "ai sent"
  /\ UNCHANGED << bugReporterInitialized, pipelineRest, furtherVars,
                  consoleVars,
                  heuristicVars, parserVars, samplerVars, argsVars,
                  liveErrors, prompt >>

\* createPatternBugReport, called at once without a key or from the catch
\* block of createGeminiEnhancedReport: it reads the arrays anew.
PatternReport(found) ==
  /\ bugReporterInitialized
  /\ reportPc \in {"idle", "inflight"}
  /\ liveErrors' = found
  /\ report' = buildReport("pattern", capturedLogs, found)
  /\ reportPc' = "pattern sent"
  /\ UNCHANGED << bugReporterInitialized, pipelineRest, furtherVars,
                  consoleVars,
                  heuristicVars, parserVars, samplerVars, argsVars,
                  prompt >>

\* The last timer of generateBugReport injects the function that sends
\* the basic report.
BasicReport ==
  /\ reportPc = "inflight"
  /\ report' = basicReport
  /\ reportPc' = "basic sent"
  /\ UNCHANGED << bugReporterInitialized, pipelineRest, furtherVars,
                  consoleVars,
                  heuristicVars, parserVars, samplerVars, argsVars,
                  liveErrors, prompt >>

ReportInit ==
  /\ PipelineIdle
  /\ documentTitle = "Example Domain"
  /\ UnitsIdle

ReportNext ==
  \/ ContentScriptInjected
  \/ CaptureWindowCloses(1)
  \/ \E m \in {"log", "error"}, t \in LogTexts : ConsoleCall(m, t)
  \/ \E found \in DomFindings : BuildPageData(found)
  \/ ErrorEvent
  \/ AnalysisArrives
  \/ \E found \in DomFindings : PatternReport(found)
  \/ BasicReport

ReportSpec == ReportInit /\ [][ReportNext]_vars

\* C25: in every report that is sent the console section holds the
\* placeholder line exactly when there are no console entries and
\* otherwise one line per entry, in capture order, with the level in
\* upper case and the text; the section of page issues holds its
\* placeholder exactly when there are no issues and otherwise one bullet
\* per issue; neither section is empty or left out.
C25_SectionsNeverEmpty ==
  [][ report' # report =>
        LET rep == report'
            logs == capturedLogs
            errs == liveErrors'
            at(label) == {k \in 1..Len(rep) : rep[k] = << label >>}
            c == CHOOSE k \in at("### Console Activity") : TRUE
            d == CHOOSE k \in at("### Page Issues") : TRUE
        IN /\ at("### Console Activity") # {}
           /\ at("### Page Issues") # {}
           /\ (at("No console activity detected.") # {}) <=> (logs = << >>)
           /\ (at("No obvious page issues found.") # {}) <=> (errs = << >>)
           /\ logs = << >> =>
                rep[c + 1] = << "No console activity detected." >>
           /\ \A k \in 1..Len(logs) :
                rep[c + k] = << toUpperCase(logs[k].method), logs[k].args >>
           /\ errs = << >> =>
                rep[d + 1] = << "No obvious page issues found." >>
           /\ \A k \in 1..Len(errs) : rep[d + k] = << "-", errs[k] >>
           /\ d = c + (IF logs = << >> THEN 1 ELSE Len(logs)) + 2
           /\ Len(rep) = d + (IF errs = << >> THEN 1 ELSE Len(errs)) + 1
    ]_vars

\* C26: in every report that is sent the header comes first and is
\* followed, in this order, by the analysis section, the lines of URL,
\* page title and time, the console section and the section of page
\* issues; the analysis section is headed 'Gemini AI Analysis' exactly
\* when the report was built from the result of analyzeBugReport and
\* 'Pattern Analysis' exactly when it was built by createPatternBugReport.
C26_FixedOrderAndLabel ==
  reportPc \in {"ai sent", "pattern sent", "basic sent"} =>
    LET at(labels) ==
          {k \in 1..Len(report) : \E l \in labels : report[k] = << l >>}
        before(A, B) == \A i \in at(A), j \in at(B) : i < j
        header == {"## header", "## Basic Page Report"}
        analysis == {"### Gemini AI Analysis", "### Pattern Analysis"}
        urls == {"**URL:**", "URL:"}
        titles == {"**Page Title:**", "Page Title:"}
        times == {"**Timestamp:**", "Timestamp:"}
        logs == {"### Console Activity"}
        issues == {"### Page Issues"}
    IN /\ at(header) = {1}
       /\ before(header, analysis) /\ before(analysis, urls)
       /\ before(header, urls) /\ before(urls, titles)
       /\ before(titles, times) /\ before(times, logs)
       /\ before(logs, issues)
       /\ reportPc \in {"ai sent", "pattern sent"} =>
            \A part \in {analysis, urls, titles, times, logs, issues} :
               Cardinality(at(part)) = 1
       /\ (at({"### Gemini AI Analysis"}) # {}) <=> (reportPc = "ai sent")
       /\ (at({"### Pattern Analysis"}) # {}) <=> (reportPc = "pattern sent")

\* A report built from the analyzer's result that lists a console entry
\* and a page issue has been sent.
C26_Witness ==
  /\ reportPc = "ai sent"
  /\ Len(report) = 11
  /\ report[2] = << "### Gemini AI Analysis" >>
  /\ report[7] = << "ERROR", "page message" >>
  /\ report[10] = << "-", "DOM Error (.error): Login failed" >>

\* C28: the console entries and the page issues listed in a report built
\* from the analyzer's result are those the prompt was written from,
\* whatever the page logged and whatever error events the window received
\* while the request was outstanding.
C28_SnapshotIsFrozen ==
  reportPc = "ai sent" =>
    report = buildReport("ai", prompt.consoleErrors, prompt.domErrors)

(***************************************************************************)
(* The analysisType tag of generateBugReport (popup.js, lines 147-214).    *)
(***************************************************************************)
\* The text in the report area had the call been made with another tag.
retag(text, analysisType) ==
  IF text.kind = "Loading AI model"
  THEN [text EXCEPT !.title = analysisType]
  ELSE text

C29_CaptureNeverReopens ==
  [][ ( /\ consoleHooked
        /\ \A k \in 1..Len(installs) : ~installs[k] )
      => /\ \A k \in 1..Len(installs') : ~installs'[k]
         /\ capturedLogs' = capturedLogs ]_vars

\* Capture was closed by a marker, the content script was injected again
\* after a refresh, and a message the page logged afterwards reached the
\* native console without being recorded.
C29_Witness ==
  /\ setupCalls = 2
  /\ installs = << FALSE >>
  /\ Len(sinkCalls) = 3
  /\ sinkCalls[1].args = "page message"
  /\ sinkCalls[2].args = "Starting bug report"
  /\ sinkCalls[3].args = "page message"
  /\ Len(capturedLogs) = 1

(***************************************************************************)
(* React detection (content-simple.js: class ReactQAAnalyzer, and the part *)
(* of createGeminiEnhancedReport that calls it and writes its sections).   *)
(* A page is what detectReact looks at: window.React (absent, with a       *)
(* version and its internals, or a bare object), the hook of the React     *)
(* DevTools (absent, without renderers, with a renderer of some version,   *)
(* or one whose renderers cannot be iterated), how many elements match the *)
(* root selectors, how many carry a fiber, whether a minified React script *)
(* is loaded, and which of the analyzer classes are on window.             *)
(***************************************************************************)
MaxRoots == 1

ReactPages ==
  [ React : {"none", "18.2.0", "no version"},
    hook : {"none", "no renderers", "17.0.2", "broken"},
    roots : 0..MaxRoots,
    fibers : 0..MaxRoots,
    minified : BOOLEAN,
    globals : SUBSET {"GeminiBugAnalyzer", "ReactQAAnalyzer",
                      "ReactAdvancedAnalyzer"} ]

\* detectReactMode
detectReactMode(p) ==
  IF p.React = "18.2.0" THEN "development"
  ELSE IF p.minified THEN "production"
  ELSE "development"

\* Faulty variant: the hook of the DevTools alone counts as React.
detectReact_hookSuffices(p) ==
  LET global ==
        IF p.React = "none"
        THEN [ detected |-> FALSE, version |-> "null", devTools |-> FALSE,
               mode |-> "null" ]
        ELSE [ detected |-> TRUE,
               version |-> IF p.React = "no version" THEN "Unknown"
                           ELSE p.React,
               devTools |-> FALSE, mode |-> "null" ]
      hooked ==
        IF p.hook = "none" THEN global
        ELSE IF p.hook \in {"no renderers", "broken"}
        THEN [global EXCEPT !.devTools = TRUE, !.detected = TRUE]
        ELSE [global EXCEPT !.devTools = TRUE, !.version = p.hook,
                            !.detected = TRUE]
      rooted ==
        IF p.roots > 0 \/ p.fibers > 0
        THEN [hooked EXCEPT !.detected = TRUE] ELSE hooked
  IN IF p.hook = "broken" THEN hooked
     ELSE IF rooted.detected
     THEN [rooted EXCEPT !.mode = detectReactMode(p)]
     ELSE rooted

\* detectReact: window.React, then the hook and its first renderer, then
\* the root elements, then the fibers, then the mode.  An exception on the
\* way (the renderers of the hook) ends the checks: what was found up to
\* it is returned.
detectReact(p) ==
  LET global ==
        IF p.React = "none"
        THEN [ detected |-> FALSE, version |-> "null", devTools |-> FALSE,
               mode |-> "null" ]
        ELSE [ detected |-> TRUE,
               version |-> IF p.React = "no version" THEN "Unknown"
                           ELSE p.React,
               devTools |-> FALSE, mode |-> "null" ]
      hooked ==
        IF p.hook = "none" THEN global
        ELSE IF p.hook \in {"no renderers", "broken"}
        THEN [global EXCEPT !.devTools = TRUE]
        ELSE [global EXCEPT !.devTools = TRUE, !.version = p.hook,
                            !.detected = TRUE]
      rooted ==
        IF p.roots > 0 \/ p.fibers > 0
        THEN [hooked EXCEPT !.detected = TRUE] ELSE hooked
  IN IF p.hook = "broken" THEN hooked
     ELSE IF rooted.detected
     THEN [rooted EXCEPT !.mode = detectReactMode(p)]
     ELSE rooted

\* analyzeReactApp: reactInfo of the analysis it returns.
analyzeReactApp(p) ==
  LET info == detectReact(p) IN
  [ ran |-> TRUE, detected |-> info.detected, version |-> info.version,
    devTools |-> info.devTools, mode |-> info.mode ]

\* The headings createGeminiEnhancedReport writes for React.
reactSections(analysis, advanced) ==
  IF analysis.ran /\ analysis.detected
  THEN << "### React Analysis" >>
         \o (IF advanced THEN << "### Advanced React Analysis" >> ELSE << >>)
  ELSE << >>

ReactInit ==
  /\ PipelineIdle
  /\ documentTitle = "Example Domain"
  /\ ConsoleIdle
  /\ HeuristicIdle
  /\ ParserIdle
  /\ SamplerIdle
  /\ ArgsIdle
  /\ ReportIdle
  /\ RelayIdle
  /\ VitalsIdle
  /\ ScanIdle
  /\ reactPage \in ReactPages
  /\ reactAnalysis = NoReactAnalysis
  /\ advancedReactAnalysis = FALSE
  /\ delivered = << >>
  /\ reactPc = "start"

reactRest ==
  << bugReporterInitialized, pipelineRest, consoleVars, heuristicVars,
     parserVars, samplerVars, argsVars, reportVars, relayVars, vitalVars,
     scanVars >>

\* createGeminiEnhancedReport up to the React analysis: without the
\* Gemini analyzer it throws at once.
AnalyzeReact ==
  /\ reactPc = "start"
  /\ IF "GeminiBugAnalyzer" \notin reactPage.globals
     THEN /\ reactPc' = "caught"
          /\ UNCHANGED reactAnalysis
     ELSE /\ reactPc' = "analyzed"
          /\ reactAnalysis' =
               IF "ReactQAAnalyzer" \in reactPage.globals
               THEN analyzeReactApp(reactPage)
               ELSE NoReactAnalysis
  /\ UNCHANGED << reactRest, reactPage, advancedReactAnalysis, delivered >>

\* The advanced analysis, behind its condition.
AnalyzeAdvancedReact ==
  /\ reactPc = "analyzed"
  /\ advancedReactAnalysis' =
       /\ reactAnalysis.ran
       /\ reactAnalysis.detected
       /\ "ReactAdvancedAnalyzer" \in reactPage.globals
  /\ reactPc' = "advanced"
  /\ UNCHANGED << reactRest, reactPage, reactAnalysis, delivered >>

\* The report of createGeminiEnhancedReport is written and sent.
SendReactReport ==
  /\ reactPc = "advanced"
  /\ delivered' =
       << "### Gemini AI Analysis" >>
         \o reactSections(reactAnalysis, advancedReactAnalysis)
         \o << "**URL:**" >>
  /\ reactPc' = "sent"
  /\ UNCHANGED << reactRest, reactPage, reactAnalysis,
                  advancedReactAnalysis >>

\* The catch block: createPatternBugReport writes and sends its report.
SendPatternReport ==
  /\ reactPc = "caught"
  /\ delivered' = << "### Pattern Analysis", "**URL:**" >>
  /\ reactPc' = "sent"
  /\ UNCHANGED << reactRest, reactPage, reactAnalysis,
                  advancedReactAnalysis >>

ReactNext ==
  \/ AnalyzeReact
  \/ AnalyzeAdvancedReact
  \/ SendReactReport
  \/ SendPatternReport

ReactSpec == ReactInit /\ [][ReactNext]_vars

\* C32: React is never taken for present.  On a page that shows none of
\* the signs detectReact looks for, the analysis says detected: false with
\* no version and no mode; and whenever the analysis does not say
\* detected, the advanced analysis is not run and the report that is sent
\* has neither a React section nor an Advanced React section.
C32_ReactNotAssumed ==
  LET signs ==
        \/ reactPage.React # "none"
        \/ reactPage.hook = "17.0.2"
        \/ reactPage.roots > 0
        \/ reactPage.fibers > 0
      headings == {delivered[k] : k \in 1..Len(delivered)}
  IN /\ (reactAnalysis.ran /\ ~signs) =>
          /\ ~reactAnalysis.detected
          /\ reactAnalysis.version = "null"
          /\ reactAnalysis.mode = "null"
     /\ ~reactAnalysis.detected =>
          /\ ~advancedReactAnalysis
          /\ "### React Analysis" \notin headings
          /\ "### Advanced React Analysis" \notin headings

\* The report of the AI path has been sent from a page that has the hook
\* of the DevTools without a renderer and both analyzers, and nothing else
\* of React.
C32_Witness ==
  /\ reactPc = "sent"
  /\ reactAnalysis.ran
  /\ ~reactAnalysis.detected
  /\ reactAnalysis.devTools
  /\ "ReactAdvancedAnalyzer" \in reactPage.globals
  /\ delivered = << "### Gemini AI Analysis", "**URL:**" >>

(***************************************************************************)
(* Routing of bugReportData (background.js and the listener of popup.js).  *)
(* chrome.runtime.sendMessage fires onMessage in every context of the      *)
(* extension that has a listener, the calling context excepted; content    *)
(* scripts are not among the receivers.                                    *)
(***************************************************************************)
MaxMessages == 2

\* Faulty variant: the calling context receives its own message too.
receivers_withSender(sender, open) ==
  {"background"} \cup (IF open THEN {"popup"} ELSE {})

\* The contexts whose onMessage fires for a message sent by the sender.
receivers(sender, open) ==
  ({"background"} \cup (IF open THEN {"popup"} ELSE {})) \ {sender}

\* The deliveries of message m sent by the sender.
deliveries(sender, m, open) ==
  { [to |-> c, from |-> sender, msg |-> m] : c \in receivers(sender, open) }

RelayInit ==
  /\ PipelineIdle
  /\ documentTitle = "Example Domain"
  /\ ConsoleIdle
  /\ HeuristicIdle
  /\ ParserIdle
  /\ SamplerIdle
  /\ ArgsIdle
  /\ ReportIdle
  /\ ReactIdle
  /\ VitalsIdle
  /\ ScanIdle
  /\ sentReports = << >>
  /\ inFlight = {}
  /\ forwards = 0
  /\ shown = "none"
  /\ popupOpen = TRUE

relayRest ==
  << bugReporterInitialized, pipelineRest, consoleVars, heuristicVars,
     parserVars, samplerVars, argsVars, reportVars, reactVars, vitalVars,
     scanVars >>

\* chrome.runtime.sendMessage({type: 'bugReportData', report}) in the page.
ContentSends(kind) ==
  /\ Len(sentReports) < MaxMessages
  /\ sentReports' = Append(sentReports, kind)
  /\ inFlight' =
       inFlight \cup deliveries("content", Len(sentReports) + 1, popupOpen)
  /\ UNCHANGED << relayRest, forwards, shown, popupOpen >>

\* The listener of the background script: the request is sent on.
BackgroundForwards ==
  \E d \in inFlight :
    /\ d.to = "background"
    /\ forwards' = forwards + 1
    /\ inFlight' =
         (inFlight \ {d}) \cup deliveries("background", d.msg, popupOpen)
    /\ UNCHANGED << relayRest, sentReports, shown, popupOpen >>

\* The listener of the popup: displayBugReport(request.report).
PopupDisplays ==
  \E d \in inFlight :
    /\ d.to = "popup"
    /\ shown' = sentReports[d.msg]
    /\ inFlight' = inFlight \ {d}
    /\ UNCHANGED << relayRest, sentReports, forwards, popupOpen >>

\* The user closes the popup: its listener is gone.
PopupCloses ==
  /\ popupOpen
  /\ popupOpen' = FALSE
  /\ inFlight' = {d \in inFlight : d.to # "popup"}
  /\ UNCHANGED << relayRest, sentReports, forwards, shown >>

RelayNext ==
  \/ \E kind \in ReportKinds : ContentSends(kind)
  \/ BackgroundForwards
  \/ PopupDisplays
  \/ PopupCloses

RelaySpec == RelayInit /\ [][RelayNext]_vars

\* C34: the background listener sends each bugReportData message on at
\* most once and never receives what it sent itself, so the messages sent
\* on are no more than the messages of the content script; and when the
\* only message of the content script has been handled everywhere and the
\* popup is open, the popup displays the report of that message.
C34_NoRelayLoop ==
  /\ forwards <= Len(sentReports)
  /\ \A d \in inFlight : d.to = "background" => d.from = "content"
  /\ shown = "none" \/ \E k \in 1..Len(sentReports) : shown = sentReports[k]
  /\ (Len(sentReports) = 1 /\ inFlight = {} /\ popupOpen)
       => shown = sentReports[1]

\* One message has been sent, the background has sent it on, the popup
\* has handled both copies and displays its report.
C34_Witness ==
  /\ sentReports = << "pattern" >>
  /\ forwards = 1
  /\ inFlight = {}
  /\ popupOpen
  /\ shown = "pattern"

(***************************************************************************)
(* Core Web Vitals (performance-monitor.js: observeLayoutShifts,           *)
(* observeLargestContentfulPaint, observeFirstInput).  Times are in        *)
(* milliseconds, layout shift scores in thousandths.                       *)
(***************************************************************************)
MaxEntries == 2
MaxCls == 300

LcpGood == 2500
LcpPoor == 4000
FidGood == 100
FidPoor == 300
ClsGood == 100
ClsPoor == 250

\* Faulty variant: a value on a threshold gets the better rating.
rate_inclusive(value, good, poor) ==
  IF value <= good THEN "good"
  ELSE IF value <= poor THEN "needs-improvement"
  ELSE "poor"

\* value < good ? 'good' : value < poor ? 'needs-improvement' : 'poor'
rate(value, good, poor) ==
  IF value < good THEN "good"
  ELSE IF value < poor THEN "needs-improvement"
  ELSE "poor"

\* What the observers are called with: lists of one or two entries.
Lists(Entries) == UNION { [1..n -> Entries] : n \in 1..MaxEntries }

LcpEntries == { [startTime |-> t] : t \in {0, 2499, 2500, 3999, 4000, 9000} }

FidEntries ==
  { [startTime |-> t, processingStart |-> t + d] :
      t \in {1200}, d \in {0, 99, 100, 299, 300, 800} }

ShiftEntries ==
  { [value |-> v, hadRecentInput |-> b] : v \in {49, 50, 150}, b \in BOOLEAN }

\* The sum of the shifts of a list without recent input, added to sum.
RECURSIVE addShifts(_, _)
addShifts(sum, list) ==
  IF list = << >> THEN sum
  ELSE addShifts(IF Head(list).hadRecentInput THEN sum
                 ELSE sum + Head(list).value, Tail(list))

VitalsInit ==
  /\ PipelineIdle
  /\ documentTitle = "Example Domain"
  /\ ConsoleIdle
  /\ HeuristicIdle
  /\ ParserIdle
  /\ SamplerIdle
  /\ ArgsIdle
  /\ ReportIdle
  /\ ReactIdle
  /\ RelayIdle
  /\ VitalsIdle
  /\ ScanIdle

vitalsRest ==
  << bugReporterInitialized, pipelineRest, consoleVars, heuristicVars,
     parserVars, samplerVars, argsVars, reportVars, reactVars, relayVars,
     scanVars >>

\* The callback of the largest-contentful-paint observer: the last entry.
LcpObserved(list) ==
  /\ LET lastEntry == list[Len(list)] IN
     vitals' = [vitals EXCEPT !.lcp =
                  [ value |-> lastEntry.startTime,
                    rating |-> rate(lastEntry.startTime, LcpGood, LcpPoor) ]]
  /\ UNCHANGED << vitalsRest, clsValue >>

\* The callback of the first-input observer: every entry overwrites fid.
FidObserved(list) ==
  /\ LET entry == list[Len(list)]
         delay == entry.processingStart - entry.startTime
     IN vitals' = [vitals EXCEPT !.fid =
                     [ value |-> delay,
                       rating |-> rate(delay, FidGood, FidPoor) ]]
  /\ UNCHANGED << vitalsRest, clsValue >>

\* The callback of the layout-shift observer: the shifts without recent
\* input are added to the sum, which is rated.
LayoutShifts(list) ==
  /\ addShifts(clsValue, list) <= MaxCls
  /\ clsValue' = addShifts(clsValue, list)
  /\ vitals' = [vitals EXCEPT !.cls =
                  [ value |-> clsValue',
                    rating |-> rate(clsValue', ClsGood, ClsPoor) ]]
  /\ UNCHANGED vitalsRest

VitalsNext ==
  \/ \E list \in Lists(LcpEntries) : LcpObserved(list)
  \/ \E list \in Lists(FidEntries) : FidObserved(list)
  \/ \E list \in Lists(ShiftEntries) : LayoutShifts(list)

VitalsSpec == VitalsInit /\ [][VitalsNext]_vars

\* C35: every vital that has been captured carries the rating of its
\* value: LCP good below 2500 ms, needs-improvement from there below
\* 4000 ms, poor from 4000 ms; FID good below 100 ms, needs-improvement
\* below 300 ms, poor from 300 ms; CLS good below 0.1, needs-improvement
\* below 0.25, poor from 0.25.  Every value has one of the three ratings,
\* and no smaller value has a worse one.
C35_RatedByThresholds ==
  LET rank(r) == CASE r = "good" -> 1 [] r = "needs-improvement" -> 2
                   [] r = "poor" -> 3 [] OTHER -> 0
      rated(v, lo, hi) ==
        /\ v.rating \in {"good", "needs-improvement", "poor"}
        /\ v.rating = "good" <=> v.value \in 0..(lo - 1)
        /\ v.rating = "needs-improvement" <=> v.value \in lo..(hi - 1)
        /\ v.rating = "poor" <=> v.value >= hi
        /\ \A w \in 0..v.value : rank(rate(w, lo, hi)) <= rank(v.rating)
  IN /\ vitals.lcp # NoVital => rated(vitals.lcp, 2500, 4000)
     /\ vitals.fid # NoVital => rated(vitals.fid, 100, 300)
     /\ vitals.cls # NoVital => rated(vitals.cls, 100, 250)
     /\ vitals.cls # NoVital => vitals.cls.value = clsValue

\* The three vitals have been captured with values on thresholds: an LCP
\* of 2500 ms, a first input delay of 300 ms and shifts that add up to 0.1.
C35_Witness ==
  /\ vitals.lcp = [value |-> 2500, rating |-> "needs-improvement"]
  /\ vitals.fid = [value |-> 300, rating |-> "poor"]
  /\ vitals.cls = [value |-> 100, rating |-> "needs-improvement"]

(***************************************************************************)
(* DOM issue scanner (content-simple.js, getDomErrors).  Only the lengths  *)
(* of the texts matter here: the text of an element is the white space     *)
(* around it and the characters between, an issue is its prefix and the    *)
(* length of what follows the prefix.                                      *)
(***************************************************************************)
MaxCodes == 50
MaxScanErrors == 1
SliceLimit == 200
CodeLength == 3
SeparatorLength == 2

\* Some of the selectors getDomErrors asks for, in its order.
errorSelectors == << ".error", ".notification-error" >>

\* innerText.trim().length
trimmedLength(text) == text.chars

\* text.slice(0, limit).length
slice(length, limit) == IF length < limit THEN length ELSE limit

\* httpErrors.join(', ').length for n matches of three digits
joinLength(n) ==
  IF n = 0 THEN 0 ELSE n * CodeLength + (n - 1) * SeparatorLength

\* The issues of the elements from position k on: one for each element
\* whose trimmed text is not empty, cut to 200 characters.
RECURSIVE elementIssues(_, _)
elementIssues(elements, k) ==
  IF k > Len(elements) THEN << >>
  ELSE LET e == elements[k] IN
       ( IF e.present /\ trimmedLength(e.text) > 0
         THEN << [ prefix |-> "DOM Error (" \o errorSelectors[k] \o "): ",
                   length |-> slice(trimmedLength(e.text), SliceLimit) ] >>
         ELSE << >> )
         \o elementIssues(elements, k + 1)

\* getDomErrors: the error elements, then the status codes of the text.
getDomErrors(p) ==
  elementIssues(p.elements, 1)
    \o ( IF p.codes > 0
         THEN << [ prefix |-> "HTTP Status Codes found: ",
                   length |-> joinLength(p.codes) ] >>
         ELSE << >> )

\* The texts of an element: blank, short, of 200 and of 201 characters,
\* and long, with or without white space around.
ElementTexts ==
  [ pad : {0, 2}, chars : {0, 1, SliceLimit, SliceLimit + 1, 5000} ]

ScanElements ==
  { [present |-> FALSE, text |-> [pad |-> 0, chars |-> 0]] }
    \cup { [present |-> TRUE, text |-> t] : t \in ElementTexts }

ScanPages ==
  [ elements : [1..Len(errorSelectors) -> ScanElements],
    codes : {0, 1, 2, MaxCodes},
    listeners : {0} ]

ScanInit ==
  /\ PipelineIdle
  /\ documentTitle = "Example Domain"
  /\ ConsoleIdle
  /\ HeuristicIdle
  /\ ParserIdle
  /\ SamplerIdle
  /\ ArgsIdle
  /\ ReportIdle
  /\ ReactIdle
  /\ RelayIdle
  /\ VitalsIdle
  /\ scanPage \in ScanPages
  /\ domIssues = << >>

scanRest ==
  << bugReporterInitialized, pipelineRest, consoleVars, heuristicVars,
     parserVars, samplerVars, argsVars, reportVars, reactVars, relayVars,
     vitalVars >>

\* A report is built: getDomErrors scans the page and sets its listener
\* for 'error' events.
ScanDom ==
  /\ scanPage.listeners = 0
  /\ domIssues' = getDomErrors(scanPage)
  /\ scanPage' = [scanPage EXCEPT !.listeners = @ + 1]
  /\ UNCHANGED scanRest

\* The 'error' listener getDomErrors has set: the message of a script
\* error of the page is appended as it is.
ScriptError(length) ==
  /\ scanPage.listeners > 0
  /\ Len(SelectSeq(domIssues, LAMBDA x : x.prefix = "JavaScript Error: "))
       < MaxScanErrors
  /\ domIssues' =
       Append(domIssues, [prefix |-> "JavaScript Error: ", length |-> length])
  /\ UNCHANGED << scanRest, scanPage >>

ScanNext ==
  \/ ScanDom
  \/ \E length \in {30, 5000} : ScriptError(length)

ScanSpec == ScanInit /\ [][ScanNext]_vars

\* C36: every issue getDomErrors produces is one of its fixed prefixes
\* followed by at most 200 characters, however long the texts of the page
\* are and however many status codes its text holds.
C36_IssuesAreBounded ==
  \A k \in 1..Len(domIssues) : domIssues[k].length <= 200

====
